---- MODULE Spec2Model ----
(***************************************************************************)
(* Shadow AI: the intent interpretation and dispatch pipeline.             *)
(*                                                                         *)
(*   shadow_core/dynamic_nlu.py      AdvancedInterpreter,                  *)
(*                                   ContextAwareInterpreter               *)
(*   shadow_core/nlu.py              NLU (tiered classifier)               *)
(*   shadow_core/decision_engine.py  DecisionEngine (turn handler)         *)
(*   shadow_core/brain.py            ShadowBrain (rate-limited AI client)  *)
(*   main.py                         Shadow.handle_query, handle_query     *)
(*                                                                         *)
(* Python strings are sequences of one-character strings, so that `in`,    *)
(* lower(), strip() and replace() are computed character by character.     *)
(* Floats are integers scaled by 100 (0.3 is 30, 0.95 is 95).              *)
(***************************************************************************)
EXTENDS Integers, Sequences, FiniteSets, TLC

VARIABLES
    stt,                   \* ShadowSTT / OpenAISTT: the continuous listener, its workers and the main thread
    gem,                   \* GeminiFlashBrain: rate-limit state, key rotation and the ask in progress
    path,                  \* main.py: the turn in flight on one of the entry paths
    roman,                 \* a text and what the Roman-script detectors say of it
    mlm,                   \* MultilingualManager: current_language and the last detect_language call
    conversation_context,  \* AdvancedInterpreter.conversation_context
    ca_context,            \* ContextAwareInterpreter.conversation_context
    clock,                 \* source of datetime.now() timestamps, one tick per update
    hist_adv,              \* ghost: every summary appended to conversation_context
    hist_ca,               \* ghost: every summary appended to ca_context
    last,                  \* ghost: the last call, its inputs and what it returned
    mq,                    \* main.py: SHADOW.message_queue and message_worker
    turns,                 \* turns in flight on one shared ConversationContext
    norm,                  \* a text and what the normalisers made of it
    tmpl,                  \* a reply template lookup and its result
    nlu,                   \* ghost: the last NLU.classify call
    eng,                   \* DecisionEngine / Shadow turn state
    brain                  \* ShadowBrain rate-limit state

vars == <<stt, gem, path, roman, mlm, conversation_context, ca_context, clock, hist_adv, hist_ca, last, mq, turns,
          norm, tmpl, nlu, eng, brain>>

-----------------------------------------------------------------------------
(* Bounds of the model *)

MaxWords == 2        \* words per input text
MaxTurns == 6        \* turns in the context specification (more than the buffer holds)

-----------------------------------------------------------------------------
(* Python str operations *)

NoText == << >>

LowerChar(c) ==
    CASE c = "A" -> "a" [] c = "C" -> "c" [] c = "F" -> "f" [] c = "H" -> "h"
      [] c = "K" -> "k"
      [] c = "M" -> "m" [] c = "O" -> "o" [] c = "R" -> "r" [] c = "S" -> "s"
      [] c = "T" -> "t" [] c = "W" -> "w"
      [] OTHER -> c

\* str.lower()
lower(s) == [i \in DOMAIN s |-> LowerChar(s[i])]

IsSpace(c) == c \in {" ", "\t", "\n"}

\* str.strip()
strip(s) ==
    LET keep == {i \in DOMAIN s : ~IsSpace(s[i])}
    IN  IF keep = {} THEN NoText
        ELSE LET lo == CHOOSE i \in keep : \A j \in keep : i <= j
                 hi == CHOOSE i \in keep : \A j \in keep : j <= i
             IN  SubSeq(s, lo, hi)

\* k in s
IsSub(k, s) ==
    \E i \in 0..(Len(s) - Len(k)) : \A j \in 1..Len(k) : s[i + j] = k[j]

\* any(word in s for word in words)
AnyIn(words, s) == \E w \in words : IsSub(w, s)

RECURSIVE Concat(_)
Concat(ws) == IF ws = << >> THEN NoText ELSE Head(ws) \o Concat(Tail(ws))

RECURSIVE SeqsUpTo(_, _)
SeqsUpTo(S, n) ==
    IF n = 0 THEN {<< >>}
    ELSE LET shorter == SeqsUpTo(S, n - 1)
         IN  shorter \cup {Append(q, x) : q \in shorter, x \in S}

-----------------------------------------------------------------------------
(* Input texts: every concatenation of at most MaxWords vocabulary words *)

Vocabulary ==
    { <<" ">>,
      <<"W","e","a","t","h","e","r">>,
      <<"t","e","l","l">>,
      <<"A","l","a","r","m">>,
      <<"r","u","n","n","i","n","g">>,
      <<"h","i">>,
      <<"\t">> }

Texts == {Concat(ws) : ws \in SeqsUpTo(Vocabulary, MaxWords)}

-----------------------------------------------------------------------------
(* shadow_core/dynamic_nlu.py *)

IntentType ==
    {"messaging", "knowledge", "scheduling", "automation", "system",
     "file_operations", "web_operations", "chat", "unknown"}

required_fields ==
    {"intent_type", "confidence", "action", "target", "parameters", "reasoning"}

FallbackConfidence == 30
DefaultConfidence == 50

FallbackReasoning == "Fallback analysis based on basic keyword detection"

kw_weather ==
    { <<"w","e","a","t","h","e","r">>, <<"t","e","m","p","e","r","a","t","u","r","e">>,
      <<"f","o","r","e","c","a","s","t">> }
kw_message ==
    { <<"m","e","s","s","a","g","e">>, <<"t","e","l","l">>, <<"s","e","n","d">>,
      <<"n","o","t","i","f","y">> }
kw_remind ==
    { <<"r","e","m","i","n","d">>, <<"a","l","a","r","m">>, <<"t","i","m","e","r">>,
      <<"s","c","h","e","d","u","l","e">> }
kw_open ==
    { <<"o","p","e","n">>, <<"c","l","o","s","e">>, <<"s","t","a","r","t">>,
      <<"r","u","n">> }

\* The ladder without text.lower(): capitalised keywords go unseen.
FallbackLadder_CaseSensitive(text) ==
    IF AnyIn(kw_weather, text)
        THEN [intent_type |-> "knowledge", action |-> "get_weather",
              target |-> "current location"]
    ELSE IF AnyIn(kw_message, text)
        THEN [intent_type |-> "messaging", action |-> "send_message",
              target |-> "contact"]
    ELSE [intent_type |-> "chat", action |-> "respond", target |-> "user"]

\* The if/elif ladder of _create_fallback_intent: type, action, target.
FallbackLadder(text) ==
    LET text_lower == lower(text)
    IN  IF AnyIn(kw_weather, text_lower)
            THEN [intent_type |-> "knowledge", action |-> "get_weather",
                  target |-> "current location"]
        ELSE IF AnyIn(kw_message, text_lower)
            THEN [intent_type |-> "messaging", action |-> "send_message",
                  target |-> "contact"]
        ELSE IF AnyIn(kw_remind, text_lower)
            THEN [intent_type |-> "scheduling", action |-> "set_reminder",
                  target |-> "task"]
        ELSE IF AnyIn(kw_open, text_lower)
            THEN [intent_type |-> "automation", action |-> "open_app",
                  target |-> "application"]
        ELSE [intent_type |-> "chat", action |-> "respond", target |-> "user"]

create_fallback_intent(text) ==
    LET l == FallbackLadder(text)
    IN  [intent_type |-> l.intent_type,
         confidence  |-> FallbackConfidence,
         action      |-> l.action,
         target      |-> l.target,
         parameters  |-> [src |-> "text", query |-> text],
         reasoning   |-> FallbackReasoning]

(* What brain.ask can give back.  kind:
     "raise"      the call raised
     "notstr"     a value that is not a string (re.search raises TypeError)
     "nojson"     text in which the JSON regex finds nothing
     "malformed"  text the regex matches but json.loads rejects
     "object"     text holding a JSON object; `has` are its keys               *)
Reply(kind) ==
    [kind |-> kind, has |-> {}, intent_type |-> "", confidence |-> [num |-> FALSE, v |-> 0],
     action |-> "", target |-> "", parameters |-> "", reasoning |-> ""]

Obj(has, it, conf, act, tgt) ==
    [kind |-> "object", has |-> has, intent_type |-> it, confidence |-> conf,
     action |-> act, target |-> tgt, parameters |-> "ai_parameters",
     reasoning |-> "ai_reasoning"]

Num(v) == [num |-> TRUE, v |-> v]
NotNum == [num |-> FALSE, v |-> 0]

\* A call's outcome: the exception it raised ("" for none) and its value.
Returned(val) == [exc |-> "", val |-> val]
Raised(exc) == [exc |-> exc, val |-> "none"]

\* An enum lookup that accepts any string.
InEnum_AnyString(value) == value \in STRING

\* IntentType(value): the enum lookup raises ValueError outside the value set.
InEnum(value) == value \in IntentType

\* The try body of _parse_advanced_response (lines 304-331).
ParseBody(response, original_text) ==
    IF response.kind = "notstr" THEN Raised("TypeError")
    ELSE IF response.kind = "nojson" THEN Returned(create_fallback_intent(original_text))
    ELSE IF response.kind = "malformed" THEN Raised("JSONDecodeError")
    ELSE IF ~(required_fields \subseteq response.has)
        THEN Returned(create_fallback_intent(original_text))
    ELSE IF ~response.confidence.num THEN Raised("ValueError")
    ELSE IF ~InEnum(response.intent_type) THEN Raised("ValueError")
    ELSE Returned(
         [intent_type |-> response.intent_type,
          confidence  |-> IF 0 <= response.confidence.v /\ response.confidence.v <= 100
                            THEN response.confidence.v ELSE DefaultConfidence,
          action      |-> response.action,
          target      |-> response.target,
          parameters  |-> [src |-> "ai", query |-> NoText],
          reasoning   |-> response.reasoning])

\* _parse_advanced_response: both except clauses return the fallback intent.
parse_advanced_response(response, original_text) ==
    LET r == ParseBody(response, original_text)
    IN  IF r.exc = "JSONDecodeError" THEN Returned(create_fallback_intent(original_text))
        ELSE IF r.exc # "" THEN Returned(create_fallback_intent(original_text))
        ELSE r

BufferSize == 5

Summary(intent, ts) ==
    [intent |-> intent.intent_type, action |-> intent.action,
     target |-> intent.target, timestamp |-> ts]

\* A buffer that drops the newest entry instead of the oldest.
PushRecent_DropNewest(recent, entry) ==
    LET grown == Append(recent, entry)
    IN  IF Len(grown) > BufferSize THEN SubSeq(grown, 1, BufferSize) ELSE grown

\* list.append then pop(0) once the length exceeds 5
PushRecent(recent, entry) ==
    LET grown == Append(recent, entry)
    IN  IF Len(grown) > BufferSize THEN Tail(grown) ELSE grown

\* _update_advanced_context
update_advanced_context(ctx, intent, ts) ==
    [current_topic  |-> IF intent.target # "" /\ intent.target # "user"
                           THEN intent.target ELSE ctx.current_topic,
     recent_intents |-> PushRecent(ctx.recent_intents, Summary(intent, ts))]

\* ContextAwareInterpreter._update_conversation_context (topic and buffer)
update_conversation_context(ctx, intent, ts) ==
    [current_topic  |-> IF intent.intent_type # "chat"
                           THEN intent.target ELSE ctx.current_topic,
     recent_intents |-> PushRecent(ctx.recent_intents, Summary(intent, ts))]

(* AdvancedInterpreter.interpret: [exc, intent, ctx, updated].  Whatever the
   try body raises (brain.ask, the parse) is caught by `except Exception`,
   which returns the fallback intent and leaves the context alone.          *)
interpret(ctx, text, response, ts) ==
    LET asked  == IF response.kind = "raise" THEN Raised("Exception") ELSE Returned(response)
        parsed == IF asked.exc # "" THEN asked
                  ELSE parse_advanced_response(response, text)
    IN  IF parsed.exc # ""
            THEN [exc |-> "", intent |-> create_fallback_intent(text), ctx |-> ctx,
                  updated |-> FALSE]
        ELSE [exc |-> "", intent |-> parsed.val,
              ctx |-> update_advanced_context(ctx, parsed.val, ts), updated |-> TRUE]

EmptyContext == [current_topic |-> "None", recent_intents |-> << >>]

-----------------------------------------------------------------------------
(* Values of the variables a specification does not use *)

NoCall == [op |-> "none"]
IdleNlu == [op |-> "none"]
IdleEng == [op |-> "none"]
IdleBrain == [op |-> "none"]
IdleMq == [op |-> "none"]
IdleTurns == [op |-> "none"]
IdleNorm == [op |-> "none"]
IdleTmpl == [op |-> "none"]
IdleStt == [op |-> "none"]
IdleGem == [op |-> "none"]
IdlePath == [op |-> "none"]
IdleRoman == [op |-> "none"]
IdleMlm == [op |-> "none"]

-----------------------------------------------------------------------------
(* Specification SpecParse: calls of AdvancedInterpreter.interpret over every
   text and every kind of AI response                                       *)

AllKeys == required_fields \cup {"urgency", "specificity"}

Responses ==
    {Reply(k) : k \in {"raise", "notstr", "nojson", "malformed"}}
    \cup
    {Obj(has, it, conf, "ai_action", tgt) :
        has  \in {AllKeys} \cup {AllKeys \ {f} : f \in required_fields},
        it   \in {"knowledge", "chat", "file_ops"},
        conf \in {Num(20), Num(150), NotNum},
        tgt  \in {"London", ""}}

\* A context whose buffer is full: BufferSize earlier turns about London.
RECURSIVE AfterTurns(_)
AfterTurns(n) ==
    IF n = 0 THEN EmptyContext
    ELSE update_advanced_context(AfterTurns(n - 1),
            [intent_type |-> "knowledge", action |-> "get_weather", target |-> "London"],
            0)

InitParse ==
    /\ stt = IdleStt
    /\ gem = IdleGem
    /\ path = IdlePath
    /\ roman = IdleRoman
    /\ mlm = IdleMlm
    /\ conversation_context \in {EmptyContext, AfterTurns(BufferSize)}
    /\ ca_context = EmptyContext
    /\ clock = 0
    /\ mq = IdleMq
    /\ turns = IdleTurns
    /\ norm = IdleNorm
    /\ tmpl = IdleTmpl
    /\ hist_adv = << >>
    /\ hist_ca = << >>
    /\ last \in {[op |-> "none", text |-> t] : t \in Texts}
    /\ nlu = IdleNlu
    /\ eng = IdleEng
    /\ brain = IdleBrain

\* One call of AdvancedInterpreter.interpret(text), the AI answering `response`.
Interpret ==
    \E text \in {last.text}, response \in Responses :
        /\ last.op = "none"
        /\ \E r \in {interpret(conversation_context, text, response, clock + 1)} :
               /\ conversation_context' = r.ctx
               /\ hist_adv' = IF r.updated
                                 THEN Append(hist_adv, Summary(r.intent, clock + 1))
                                 ELSE hist_adv
               /\ last' = [op |-> "interpret", text |-> text, response |-> response,
                           exc |-> r.exc, intent |-> r.intent, updated |-> r.updated,
                           topic_before |-> conversation_context.current_topic]
        /\ clock' = clock + 1
        /\ UNCHANGED <<stt, gem, path, roman, mlm, mq, turns, norm, tmpl, ca_context, hist_ca, nlu, eng, brain>>

NextParse == Interpret

SpecParse == InitParse /\ [][NextParse]_vars

\* C1: for every text, context and AI response (garbage, a type outside the
\* enum, a raised error) interpret returns, without raising, an intent whose
\* type is a member of IntentType.
C1_TypeInClosedSet ==
    last.op = "interpret" =>
        /\ last.exc = ""
        /\ last.intent.intent_type \in IntentType

\* The AI named a type outside the enum in an otherwise well-formed object.
C1_Witness ==
    /\ last.op = "interpret"
    /\ last.response.kind = "object"
    /\ required_fields \subseteq last.response.has
    /\ last.response.confidence.num
    /\ last.response.intent_type \notin IntentType
    /\ Len(conversation_context.recent_intents) > 0

LadderKeywords == kw_weather \cup kw_message \cup kw_remind \cup kw_open

\* C4 as claimed: malformed JSON always gives type chat at confidence 0.3.
C4_MalformedGivesChat ==
    (last.op = "interpret" /\ last.response.kind = "malformed") =>
        /\ last.exc = ""
        /\ last.intent.intent_type = "chat"
        /\ last.intent.confidence = 30

\* C4 as amended: malformed JSON gives, without raising, the structural
\* fallback intent: confidence 0.3, and type chat exactly when the lowercased
\* text holds none of the ladder's keywords (otherwise the ladder's type).
C4_MalformedGivesFallback ==
    (last.op = "interpret" /\ last.response.kind = "malformed") =>
        /\ last.exc = ""
        /\ last.intent.confidence = 30
        /\ last.intent.intent_type \in
              {"knowledge", "messaging", "scheduling", "automation", "chat"}
        /\ (last.intent.intent_type = "chat") <=> ~AnyIn(LadderKeywords, lower(last.text))
        /\ last.intent.parameters = [src |-> "text", query |-> last.text]

\* Malformed JSON arrived for a text that holds a ladder keyword.
C4_Witness ==
    /\ last.op = "interpret"
    /\ last.response.kind = "malformed"
    /\ AnyIn(kw_weather, lower(last.text))
    /\ last.intent.intent_type = "knowledge"

-----------------------------------------------------------------------------
(* Specification SpecCtx: sequential turns through
   ContextAwareInterpreter.interpret_with_context, which calls
   AdvancedInterpreter.interpret and then updates its own context           *)

hi == <<"h","i">>

\* What a turn can bring: the text and what the AI answers to it.
TurnInputs ==
    { <<hi, Obj(AllKeys, "knowledge", Num(95), "get_weather", "London")>>,
      <<hi, Obj(AllKeys, "knowledge", Num(95), "get_weather", "Paris")>>,
      <<hi, Obj(AllKeys, "chat", Num(88), "explain_solution", "code issue")>>,
      <<hi, Obj(AllKeys, "scheduling", Num(90), "set_alarm", "")>>,
      <<hi, Reply("raise")>>,
      <<<<"W","e","a","t","h","e","r">>, Reply("malformed")>> }

InitCtx ==
    /\ stt = IdleStt
    /\ gem = IdleGem
    /\ path = IdlePath
    /\ roman = IdleRoman
    /\ mlm = IdleMlm
    /\ conversation_context = EmptyContext
    /\ ca_context = EmptyContext
    /\ clock = 0
    /\ mq = IdleMq
    /\ turns = IdleTurns
    /\ norm = IdleNorm
    /\ tmpl = IdleTmpl
    /\ hist_adv = << >>
    /\ hist_ca = << >>
    /\ last = NoCall
    /\ nlu = IdleNlu
    /\ eng = IdleEng
    /\ brain = IdleBrain

\* One turn: interpret_with_context(text).
InterpretWithContext ==
    \E inp \in TurnInputs :
        /\ clock < MaxTurns
        /\ \E text \in {inp[1]}, ts \in {clock + 1} :
           \E r \in {interpret(conversation_context, text, inp[2], ts)} :
               /\ conversation_context' = r.ctx
               /\ ca_context' = update_conversation_context(ca_context, r.intent, ts)
               /\ hist_adv' = IF r.updated
                                 THEN Append(hist_adv, Summary(r.intent, ts))
                                 ELSE hist_adv
               /\ hist_ca' = Append(hist_ca, Summary(r.intent, ts))
               /\ last' = [op |-> "interpret_with_context", text |-> text,
                           response |-> inp[2], exc |-> r.exc, intent |-> r.intent,
                           updated |-> r.updated,
                           topic_before |-> conversation_context.current_topic,
                           ca_topic_before |-> ca_context.current_topic]
        /\ clock' = clock + 1
        /\ UNCHANGED <<stt, gem, path, roman, mlm, mq, turns, norm, tmpl, nlu, eng, brain>>

NextCtx == InterpretWithContext

SpecCtx == InitCtx /\ [][NextCtx]_vars

Min(a, b) == IF a <= b THEN a ELSE b

\* The last n entries of h (all of h when it is shorter).
LastN(h, n) == SubSeq(h, Len(h) - Min(n, Len(h)) + 1, Len(h))

\* C6: after n sequential updates recent_intents holds exactly the last
\* min(n, 5) summaries in arrival order (never more than 5, oldest evicted),
\* in the ContextAwareInterpreter's buffer and in the AdvancedInterpreter's.
C6_RecentIntentsFifo ==
    /\ Len(ca_context.recent_intents) = Min(Len(hist_ca), 5)
    /\ ca_context.recent_intents = LastN(hist_ca, 5)
    /\ Len(conversation_context.recent_intents) = Min(Len(hist_adv), 5)
    /\ conversation_context.recent_intents = LastN(hist_adv, 5)

\* Both buffers have evicted at least one entry.
C6_Witness ==
    /\ Len(hist_ca) > 5
    /\ Len(hist_adv) > 5
    /\ Len(ca_context.recent_intents) = 5

\* C7: after each context update current_topic is the new intent's target if
\* the type is not chat and is unchanged if the type is chat, in the
\* ContextAwareInterpreter's context and in the AdvancedInterpreter's.
C7_TopicFollowsNonChatTarget ==
    last.op = "interpret_with_context" =>
        /\ ca_context.current_topic =
              IF last.intent.intent_type # "chat" THEN last.intent.target
              ELSE last.ca_topic_before
        /\ last.updated =>
              conversation_context.current_topic =
                 IF last.intent.intent_type # "chat" THEN last.intent.target
                 ELSE last.topic_before

\* The ContextAwareInterpreter's half of C7, which the code keeps.
C7_CaTopicFollowsNonChatTarget ==
    last.op = "interpret_with_context" =>
        ca_context.current_topic =
            IF last.intent.intent_type # "chat" THEN last.intent.target
            ELSE last.ca_topic_before

\* A turn about London followed by a turn about Paris.
C7_Witness ==
    /\ last.op = "interpret_with_context"
    /\ last.ca_topic_before = "London"
    /\ last.intent.target = "Paris"
    /\ ca_context.current_topic = "Paris"
    /\ conversation_context.current_topic = "Paris"

\* C28: in every turn interpreted by AdvancedInterpreter.interpret exactly one
\* summary is appended to recent_intents, and it describes the intent that
\* the turn returned, also when the AI call raised.
C28_OneSummaryPerTurn ==
    /\ Len(hist_adv) = clock
    /\ last.op = "interpret_with_context" =>
          /\ hist_adv # << >>
          /\ hist_adv[Len(hist_adv)] = Summary(last.intent, clock)

\* C28, the part the code keeps: a turn whose AI answer was parsed appends
\* the summary of the intent it returns, and no turn appends more than one.
C28_ParsedTurnAppendsItsSummary ==
    /\ Len(hist_adv) <= clock
    /\ (last.op = "interpret_with_context" /\ last.updated) =>
          /\ hist_adv # << >>
          /\ hist_adv[Len(hist_adv)] = Summary(last.intent, clock)
          /\ conversation_context.recent_intents # << >>
          /\ conversation_context.recent_intents[Len(conversation_context.recent_intents)]
                = Summary(last.intent, clock)

-----------------------------------------------------------------------------
(* Specification SpecTurns: turns in flight at the same time on one
   AdvancedInterpreter.  schedule_handle_query hands every turn to the one
   loop BG_LOOP; a turn's interpret builds its prompt from the context, is
   suspended in `await self.brain.ask(...)`, and when the answer arrives
   parses it and runs _update_advanced_context to its end without another
   await, so turns interleave only between the start and the answer.        *)

MaxInFlight == 3

\* What the AI answers to a turn in flight.
TurnResponses ==
    { Obj(AllKeys, "knowledge", Num(95), "get_weather", "Paris"),
      Obj(AllKeys, "chat", Num(88), "explain_solution", "user"),
      Reply("raise") }

\* An update that starts from the context as it was when the turn began.
ContextAtUpdate_Snapshot(current, snapshot) == snapshot

\* _update_advanced_context works on self.conversation_context as it is when
\* the answer arrives, not on the copy in full_context made before the await.
ContextAtUpdate(current, snapshot) == current

InitTurns ==
    /\ stt = IdleStt
    /\ gem = IdleGem
    /\ path = IdlePath
    /\ roman = IdleRoman
    /\ mlm = IdleMlm
    /\ conversation_context = AfterTurns(BufferSize - 1)
    /\ ca_context = EmptyContext
    /\ clock = 0
    /\ mq = IdleMq
    /\ norm = IdleNorm
    /\ tmpl = IdleTmpl
    /\ hist_adv = AfterTurns(BufferSize - 1).recent_intents
    /\ hist_ca = << >>
    /\ last = NoCall
    /\ nlu = IdleNlu
    /\ eng = IdleEng
    /\ brain = IdleBrain
    /\ turns = [op |-> "none", started |-> 0, inflight |-> {}, applied |-> << >>,
                returned |-> {}]

\* A turn begins: interpret runs up to `await self.brain.ask(...)`.
TurnStart ==
    /\ turns.started < MaxInFlight
    /\ turns' = [turns EXCEPT !.op = "start", !.started = @ + 1,
                              !.inflight = @ \cup {[id |-> turns.started + 1,
                                                    snapshot |-> conversation_context]}]
    /\ UNCHANGED <<stt, gem, path, roman, mlm, mq, norm, tmpl, conversation_context, ca_context, clock, hist_adv,
                   hist_ca, last, nlu, eng, brain>>

\* The answer for one turn in flight arrives: interpret parses it, updates
\* the context and returns.
TurnResume ==
    \E t \in turns.inflight, response \in TurnResponses :
    \E ts \in {clock + 1} :
    \E r \in {interpret(ContextAtUpdate(conversation_context, t.snapshot), hi,
                        response, ts)} :
        /\ conversation_context' = r.ctx
        /\ hist_adv' = IF r.updated THEN Append(hist_adv, Summary(r.intent, ts))
                       ELSE hist_adv
        /\ clock' = ts
        /\ turns' = [turns EXCEPT !.op = "resume", !.inflight = @ \ {t},
                                  !.applied = IF r.updated THEN Append(@, t.id) ELSE @,
                                  !.returned = @ \cup {t.id}]
        /\ UNCHANGED <<stt, gem, path, roman, mlm, mq, norm, tmpl, ca_context, hist_ca, last, nlu, eng, brain>>

NextTurns ==
    \/ TurnStart
    \/ TurnResume

SpecTurns == InitTurns /\ [][NextTurns]_vars

-----------------------------------------------------------------------------
(* shadow_core/nlu.py *)

\* The characters of a string literal.
Chars(str) == [i \in 1..Len(str) |-> SubSeq(str, i, i)]

(* The Tier-1 pattern table, in dict order.  Listed are the patterns whose
   regex is an alternation of literals, an optional \s+ and a final (.+);
   `lits` are the literal alternatives (an optional '?s? is written out).
   The remaining patterns need a digit, an upper-case letter (text_lower has
   none) or one of the words weather, forecast, temperature, raining, news,
   headlines, reminder(s), timer(s), alarm(s), countdown, wake: the
   vocabulary of the classified texts holds none of these.                  *)
patterns ==
    << [intent |-> "search_web", ws |-> TRUE,
        lits |-> {Chars("search"), Chars("look up"), Chars("find"), Chars("google")}],
       [intent |-> "search_web", ws |-> FALSE, lits |-> {Chars("search the web for ")}],
       [intent |-> "search_web", ws |-> FALSE, lits |-> {Chars("find information about ")}],
       [intent |-> "search_web", ws |-> FALSE, lits |-> {Chars("what is ")}],
       [intent |-> "get_news", ws |-> FALSE,
        lits |-> {Chars("what the latest news about "), Chars("whats the latest news about "),
                  Chars("what's the latest news about "), Chars("what' the latest news about ")}],
       [intent |-> "get_news", ws |-> FALSE, lits |-> {Chars("tell me news about ")}],
       [intent |-> "get_fact", ws |-> FALSE, lits |-> {Chars("tell me a fact about ")}],
       [intent |-> "get_fact", ws |-> FALSE, lits |-> {Chars("interesting fact about ")}],
       [intent |-> "get_fact", ws |-> FALSE, lits |-> {Chars("did you know about ")}] >>

\* s has the literal k at offset i (0-based)
At(k, s, i) ==
    /\ i + Len(k) <= Len(s)
    /\ \A j \in 1..Len(k) : s[i + j] = k[j]

\* Where (.+) starts (1-based) for a match of pattern p at offset i, 0 for none:
\* after a literal and, for \s+, after the whitespace that follows it; `.`
\* needs a character that is not a newline there.
GroupStart(p, s, i) ==
    LET ends == {i + Len(k) : k \in {k \in p.lits : At(k, s, i)}}
        ok   == {e \in ends :
                    IF p.ws
                      THEN /\ e + 1 <= Len(s)
                           /\ IsSpace(s[e + 1])
                           /\ \E g \in (e + 2)..Len(s) : ~IsSpace(s[g])
                      ELSE e + 1 <= Len(s) /\ s[e + 1] # "\n"}
    IN  IF ok = {} THEN 0
        ELSE LET e == CHOOSE e \in ok : TRUE
             IN  IF p.ws
                   THEN CHOOSE g \in (e + 2)..Len(s) :
                            ~IsSpace(s[g]) /\ \A h \in (e + 1)..(g - 1) : IsSpace(s[h])
                   ELSE e + 1

\* re.search(pattern, s): the leftmost match, [found, start, end, group]
\* with start and end as match.start() and match.end().
search(p, s) ==
    LET starts == {i \in 0..Len(s) : GroupStart(p, s, i) # 0}
    IN  IF starts = {} THEN [found |-> FALSE, start |-> 0, end |-> 0, group |-> NoText]
        ELSE LET i  == CHOOSE i \in starts : \A j \in starts : i <= j
                 g  == GroupStart(p, s, i)
                 nl == {n \in g..Len(s) : s[n] = "\n"}
                 e  == IF nl = {} THEN Len(s)
                       ELSE (CHOOSE n \in nl : \A m \in nl : n <= m) - 1
             IN  [found |-> TRUE, start |-> i, end |-> e, group |-> SubSeq(s, g, e)]

\* A confidence that ignores the coverage of the match.
calculate_pattern_confidence_Flat(match, text) == 75

\* _calculate_pattern_confidence: coverage = match_length / text_length
calculate_pattern_confidence(match, text) ==
    LET match_length == match.end - match.start
        text_length  == Len(text)
    IN  IF 10 * match_length > 8 * text_length THEN 95
        ELSE IF 10 * match_length > 5 * text_length THEN 85
        ELSE 75

IntentResult(intent, confidence, entities) ==
    [intent |-> intent, confidence |-> confidence, entities |-> entities]

NoEntities == [src |-> "none", value |-> NoText]

\* A loop that keeps the first match, whatever matches later.
RuleLoop_FirstWins(text_lower, n) ==
    LET found == {i \in 1..n : search(patterns[i], text_lower).found}
    IN  IF found = {} THEN IntentResult("chat", 0, NoEntities)
        ELSE LET first == CHOOSE i \in found : \A j \in found : i <= j
                 match == search(patterns[first], text_lower)
             IN  IntentResult(patterns[first].intent,
                              calculate_pattern_confidence(match, text_lower),
                              [src |-> "pattern", value |-> strip(match.group)])

\* The loop of _rule_based_classification over the first n patterns:
\* a later match replaces the best one only with a strictly higher confidence.
RECURSIVE RuleLoop(_, _)
RuleLoop(text_lower, n) ==
    IF n = 0 THEN IntentResult("chat", 0, NoEntities)
    ELSE LET best  == RuleLoop(text_lower, n - 1)
             match == search(patterns[n], text_lower)
         IN  IF match.found /\ calculate_pattern_confidence(match, text_lower) > best.confidence
               THEN IntentResult(patterns[n].intent,
                                 calculate_pattern_confidence(match, text_lower),
                                 [src |-> "pattern", value |-> strip(match.group)])
               ELSE best

rule_based_classification(text_lower) == RuleLoop(text_lower, Len(patterns))

\* keyword_mappings, in dict order
keyword_mappings ==
    << [intent |-> "send_message",
        keywords |-> {Chars("send"), Chars("text"), Chars("message"), Chars("whatsapp"),
                      Chars("sms")}],
       [intent |-> "get_weather",
        keywords |-> {Chars("weather"), Chars("temperature"), Chars("forecast"),
                      Chars("rain"), Chars("sunny"), Chars("cloudy")}],
       [intent |-> "get_stock",
        keywords |-> {Chars("stock"), Chars("price"), Chars("share"), Chars("crypto"),
                      Chars("bitcoin"), Chars("ethereum")}],
       [intent |-> "search_web",
        keywords |-> {Chars("search"), Chars("google"), Chars("look up"), Chars("find"),
                      Chars("information about")}],
       [intent |-> "set_reminder",
        keywords |-> {Chars("remind"), Chars("reminder"), Chars("timer"), Chars("alarm"),
                      Chars("schedule")}],
       [intent |-> "translate",
        keywords |-> {Chars("translate"), Chars("translation"), Chars("in spanish"),
                      Chars("in french"), Chars("how say")}],
       [intent |-> "open_app",
        keywords |-> {Chars("open"), Chars("launch"), Chars("start"), Chars("application")}],
       [intent |-> "get_time",
        keywords |-> {Chars("time"), Chars("clock"), Chars("what time")}],
       [intent |-> "get_date",
        keywords |-> {Chars("date"), Chars("today"), Chars("what date")}],
       [intent |-> "joke",
        keywords |-> {Chars("joke"), Chars("funny"), Chars("make me laugh")}],
       [intent |-> "calculation",
        keywords |-> {Chars("calculate"), Chars("math"), Chars("what is"),
                      Chars("how much is")}] >>

\* score of one intent: the number of its keywords found in text_lower
Score(i, text_lower) ==
    Cardinality({k \in keyword_mappings[i].keywords : IsSub(k, text_lower)})

(* _keyword_based_classification.  The normalised score is score/len(keywords);
   it is kept as the fraction num/den, and max(...) picks the first intent,
   in dict order, that no other intent's score exceeds.                     *)
keyword_based_classification(text_lower) ==
    LET I      == DOMAIN keyword_mappings
        num(i) == Score(i, text_lower)
        den(i) == Cardinality(keyword_mappings[i].keywords)
        scored == {i \in I : num(i) > 0}
        tops   == {i \in scored : \A j \in scored : num(j) * den(i) <= num(i) * den(j)}
    IN  IF scored = {}
          THEN [intent |-> "chat", num |-> 0, den |-> 1, entities |-> NoEntities]
          ELSE LET b == CHOOSE i \in tops : \A j \in tops : i <= j
               IN  [intent |-> keyword_mappings[b].intent, num |-> num(b), den |-> den(b),
                    entities |-> [src |-> "keyword", value |-> NoText]]

(* What brain.ask can give back to _ai_classification: Reply(kind) as above,
   or text holding a JSON object with the keys `has` among intent,
   confidence, entities.                                                    *)
NluObj(has, intent, conf, entities) ==
    [kind |-> "object", has |-> has, intent |-> intent, confidence |-> conf,
     entities |-> entities]

AiDefault == IntentResult("chat", Num(50), NoEntities)

\* dict.get(key, default) on the parsed object
Get(response, key, default) == IF key \in response.has THEN response[key] ELSE default

(* _ai_classification with a brain that has no Gemini_mode attribute (no
   brain class of the repository defines one): one brain.ask, then the parse.
   A raise of brain.ask and the TypeError of re.search on a non-string are
   caught by `except Exception`, a JSONDecodeError by the inner except; all
   of them and a response without JSON end at the final return.             *)
ai_classification(response) ==
    IF response.kind = "object"
      THEN IntentResult(Get(response, "intent", "chat"),
                        Get(response, "confidence", Num(50)),
                        Get(response, "entities", NoEntities))
      ELSE AiDefault

\* The result of NLU.classify when no tier decides.
DefaultChat == [intent |-> "chat", entities |-> NoEntities]

(* NLU.classify(text) with self.brain = brain ("none" for None) and the AI
   answering `response` if asked: [exc, val, aiCalls, tier, rule, keyword]. *)
classify(text, brain_, response) ==
    LET text_lower     == strip(lower(text))
        rule_result    == rule_based_classification(text_lower)
        keyword_result == keyword_based_classification(text_lower)
        ai_result      == ai_classification(response)
        out(exc, val, calls, tier) ==
            [exc |-> exc, val |-> val, aiCalls |-> calls, tier |-> tier,
             rule |-> rule_result.confidence,
             keyword |-> [num |-> keyword_result.num, den |-> keyword_result.den]]
    IN  IF strip(text) = NoText
          THEN [exc |-> "", val |-> DefaultChat, aiCalls |-> 0, tier |-> 0,
                rule |-> 0, keyword |-> [num |-> 0, den |-> 1]]
        ELSE IF rule_result.confidence > 80
          THEN out("", [intent |-> rule_result.intent, entities |-> rule_result.entities], 0, 1)
        ELSE IF 10 * keyword_result.num > 6 * keyword_result.den
          THEN out("", [intent |-> keyword_result.intent,
                        entities |-> keyword_result.entities], 0, 2)
        ELSE IF brain_ = "none" THEN out("", DefaultChat, 0, 4)
        ELSE IF ~ai_result.confidence.num THEN out("TypeError", "none", 1, 3)
        ELSE IF ai_result.confidence.v > 70
          THEN out("", [intent |-> ai_result.intent, entities |-> ai_result.entities], 1, 3)
        ELSE out("", DefaultChat, 1, 4)

-----------------------------------------------------------------------------
(* Specification SpecNLU: one NLU.classify call for every text, with and
   without a brain, and every kind of AI response                           *)

NluVocabulary ==
    { Chars(" "), Chars("hi "), Chars("hi hi hi "), Chars("What is x"),
      Chars("what time"), Chars("Find x"), Chars("tell me a fact about ") }

NluTexts == {Concat(ws) : ws \in SeqsUpTo(NluVocabulary, MaxWords)}

\* The intents the prompt of _ai_classification offers.
NluIntents ==
    {"send_message", "get_weather", "get_stock", "search_web", "set_reminder",
     "translate", "open_app", "get_time", "get_date", "calculation", "joke", "chat"}

NluKeys == {"intent", "confidence", "entities"}

AiEntities == [src |-> "ai", value |-> Chars("x")]

NluResponses ==
    {Reply(k) : k \in {"raise", "notstr", "nojson", "malformed"}}
    \cup
    {NluObj(has, intent, conf, AiEntities) :
        has    \in {NluKeys} \cup {NluKeys \ {f} : f \in NluKeys},
        intent \in {"get_weather", "fly_to_moon"},
        conf   \in {Num(90), Num(60), NotNum}}

InitNLU ==
    /\ stt = IdleStt
    /\ gem = IdleGem
    /\ path = IdlePath
    /\ roman = IdleRoman
    /\ mlm = IdleMlm
    /\ conversation_context = EmptyContext
    /\ ca_context = EmptyContext
    /\ clock = 0
    /\ mq = IdleMq
    /\ turns = IdleTurns
    /\ norm = IdleNorm
    /\ tmpl = IdleTmpl
    /\ hist_adv = << >>
    /\ hist_ca = << >>
    /\ last = NoCall
    /\ nlu \in {[op |-> "none", text |-> t, brain |-> b] :
                   t \in NluTexts, b \in {"none", "brain"}}
    /\ eng = IdleEng
    /\ brain = IdleBrain

\* One call of NLU.classify(text); `response` is what the AI answers if asked.
Classify ==
    \E response \in NluResponses :
        /\ nlu.op = "none"
        /\ \E r \in {classify(nlu.text, nlu.brain, response)} :
               nlu' = [op |-> "classify", text |-> nlu.text, brain |-> nlu.brain,
                       response |-> response, exc |-> r.exc, val |-> r.val,
                       aiCalls |-> r.aiCalls, tier |-> r.tier, rule |-> r.rule,
                       keyword |-> r.keyword]
        /\ UNCHANGED <<stt, gem, path, roman, mlm, mq, turns, norm, tmpl, conversation_context, ca_context, clock, hist_adv, hist_ca, last,
                       eng, brain>>

NextNLU == Classify

SpecNLU == InitNLU /\ [][NextNLU]_vars

\* C3: a classify call asks the AI at most once, and only when the Tier-1
\* confidence is not above 0.8, the Tier-2 score is not above 0.6 and a brain
\* is there; a text whose pattern match covers more than 0.8 of it never
\* reaches the AI.
C3_AiCalledAtMostOnceAfterTiers ==
    nlu.op = "classify" =>
        /\ nlu.aiCalls <= 1
        /\ nlu.aiCalls = 1 =>
              /\ nlu.rule <= 80
              /\ 10 * nlu.keyword.num <= 6 * nlu.keyword.den
              /\ nlu.brain # "none"
        /\ (\E n \in DOMAIN patterns :
               LET match == search(patterns[n], strip(lower(nlu.text)))
               IN  /\ match.found
                   /\ 10 * (match.end - match.start) > 8 * Len(strip(lower(nlu.text))))
              => nlu.aiCalls = 0

\* The AI was asked for a text that a pattern matched with low coverage.
C3_Witness ==
    /\ nlu.op = "classify"
    /\ nlu.aiCalls = 1
    /\ nlu.rule = 75
    /\ nlu.tier = 3

\* C5, for NLU.classify: when the AI's object lacks one of its fields or names
\* an intent outside the offered set, nothing of it is returned (the call
\* ends with the default chat result).
C5_InvalidAiResultDiscarded ==
    (/\ nlu.op = "classify"
     /\ nlu.aiCalls = 1
     /\ nlu.response.kind = "object"
     /\ (~(NluKeys \subseteq nlu.response.has) \/ nlu.response.intent \notin NluIntents))
    => (nlu.exc = "" /\ nlu.val = DefaultChat)

\* C5, for AdvancedInterpreter.interpret, which keeps it: an object lacking
\* a required field or naming a type outside IntentType yields exactly the
\* fallback intent built from the text.
C5_AdvancedInterpreterDiscards ==
    (/\ last.op = "interpret"
     /\ last.response.kind = "object"
     /\ (~(required_fields \subseteq last.response.has)
         \/ last.response.intent_type \notin IntentType))
    => (last.exc = "" /\ last.intent = create_fallback_intent(last.text))

\* The patterns of the table that match the text of the classified call.
Matching == {i \in DOMAIN patterns : search(patterns[i], strip(lower(nlu.text))).found}

\* The confidence of pattern i's match in that text.
MatchConfidence(i) ==
    calculate_pattern_confidence(search(patterns[i], strip(lower(nlu.text))),
                                 strip(lower(nlu.text)))

\* C25: Tier 1 returns the intent of the first pattern, in table order, that
\* matches the lowercased text, with the confidence of that match (0.95,
\* 0.85 or 0.75 by coverage); a later matching pattern never replaces it.
C25_FirstMatchWins ==
    (nlu.op = "classify" /\ strip(nlu.text) # NoText /\ Matching # {}) =>
        \E first \in Matching :
            /\ \A j \in Matching : first <= j
            /\ nlu.rule = MatchConfidence(first)
            /\ nlu.tier = 1 => nlu.val.intent = patterns[first].intent

\* C25 as the code has it: Tier 1 returns the match of the highest
\* confidence, the first of them in table order; a later matching pattern
\* replaces an earlier one exactly when its confidence is strictly higher.
C25_BestMatchWins ==
    (nlu.op = "classify" /\ strip(nlu.text) # NoText /\ Matching # {}) =>
        \E best \in Matching :
            /\ \A j \in Matching : MatchConfidence(j) <= MatchConfidence(best)
            /\ \A j \in Matching : MatchConfidence(j) = MatchConfidence(best) => best <= j
            /\ MatchConfidence(best) \in {95, 85, 75}
            /\ nlu.rule = MatchConfidence(best)
            /\ nlu.tier = 1 => nlu.val.intent = patterns[best].intent

\* The search pattern matches the tail "find x" of the text and the fact
\* pattern, later in the table, the whole text: Tier 1 answers get_fact.
C25_Witness ==
    /\ nlu.op = "classify"
    /\ nlu.text = Chars("tell me a fact about Find x")
    /\ 1 \in Matching
    /\ nlu.tier = 1
    /\ nlu.rule = 95
    /\ nlu.val.intent = "get_fact"

-----------------------------------------------------------------------------
(* shadow_core/decision_engine.py: text preprocessing *)

\* str.replace(old, new): every occurrence, left to right, without overlap
RECURSIVE replace(_, _, _)
replace(s, old, new) ==
    IF Len(s) < Len(old) \/ old = NoText THEN s
    ELSE IF At(old, s, 0)
        THEN new \o replace(SubSeq(s, Len(old) + 1, Len(s)), old, new)
    ELSE <<s[1]>> \o replace(Tail(s), old, new)

roman_urdu_indicators ==
    << Chars("kaise"), Chars("ho"), Chars("aap"), Chars("main"), Chars("theek"),
       Chars("shukriya"), Chars("madad"), Chars("kya"), Chars("kar"), Chars("sakte"),
       Chars("sakta"), Chars("sakti"), Chars("mujhe"), Chars("mera"), Chars("meri"),
       Chars("hai"), Chars("hain"), Chars("hun"), Chars("thi"), Chars("the"),
       Chars("kyun"), Chars("kahan"), Chars("kaun"), Chars("acha"), Chars("theek"),
       Chars("bilkul"), Chars("zaroor"), Chars("yaqeen"), Chars("sach"), Chars("jhoot"),
       Chars("salam"), Chars("alaikum"), Chars("khuda"), Chars("hafiz"), Chars("maaf"),
       Chars("kijiye"), Chars("barah"), Chars("karam"), Chars("awaz"), Chars("sun"),
       Chars("rahe"), Chars("jawab"), Chars("do"), Chars("yahan"), Chars("koi"),
       Chars("masla"), Chars("nahi"), Chars("phir"), Chars("koshish"), Chars("karein") >>

roman_pashto_indicators ==
    << Chars("sta"), Chars("yast"), Chars("kaw"), Chars("kawi"), Chars("kawam"),
       Chars("kawalai"), Chars("kawale"), Chars("sham"), Chars("dera"), Chars("khaire"),
       Chars("kha"), Chars("manana"), Chars("mehrbani"), Chars("sara"), Chars("lag"),
       Chars("de"), Chars("da"), Chars("pa"), Chars("po"), Chars("kaw"), Chars("ka"),
       Chars("komak"), Chars("murajat"), Chars("kawom"), Chars("kawem"), Chars("kawed"),
       Chars("kawal"), Chars("kawala"), Chars("kawalo") >>

\* sum(1 for indicator in indicators if indicator in text_lower): the list
\* is counted entry by entry, a repeated entry twice.
IndicatorScore(indicators, text_lower) ==
    Cardinality({i \in DOMAIN indicators : IsSub(indicators[i], text_lower)})

(* Characters outside ASCII are written as one element naming their code
   point: an Arabic alef, a Pashto sheen, a Devanagari ka.                  *)
ArabicScriptChars == {"U+0627", "U+069A"}
DevanagariChars == {"U+0915"}

\* re.search(r'[\u0600-\u06FF]', text), and the same with the Pashto class,
\* whose second range lies inside the first
HasArabicScript(text) == \E i \in DOMAIN text : text[i] \in ArabicScriptChars

is_roman_urdu(text) ==
    IndicatorScore(roman_urdu_indicators, lower(text)) >= 2 /\ ~HasArabicScript(text)

is_roman_pashto(text) ==
    IndicatorScore(roman_pashto_indicators, lower(text)) >= 2 /\ ~HasArabicScript(text)

\* The variations tables, flattened in iteration order: <<variant, standard>>
urdu_variations ==
    << <<Chars("kaise"), Chars("kaise")>>, <<Chars("kese"), Chars("kaise")>>,
       <<Chars("kaisey"), Chars("kaise")>>, <<Chars("kesay"), Chars("kaise")>>,
       <<Chars("ho"), Chars("ho")>>, <<Chars("hou"), Chars("ho")>>,
       <<Chars("how"), Chars("ho")>>,
       <<Chars("aap"), Chars("aap")>>, <<Chars("ap"), Chars("aap")>>,
       <<Chars("aapne"), Chars("aap")>>, <<Chars("apne"), Chars("aap")>>,
       <<Chars("main"), Chars("main")>>, <<Chars("mein"), Chars("main")>>,
       <<Chars("me"), Chars("main")>>, <<Chars("mai"), Chars("main")>>,
       <<Chars("theek"), Chars("theek")>>, <<Chars("thik"), Chars("theek")>>,
       <<Chars("theik"), Chars("theek")>>, <<Chars("thik"), Chars("theek")>>,
       <<Chars("shukriya"), Chars("shukriya")>>, <<Chars("shukria"), Chars("shukriya")>>,
       <<Chars("shukariya"), Chars("shukriya")>>,
       <<Chars("salam"), Chars("salam")>>, <<Chars("salaam"), Chars("salam")>>,
       <<Chars("slaam"), Chars("salam")>>,
       <<Chars("alaikum"), Chars("alaikum")>>, <<Chars("alaykum"), Chars("alaikum")>>,
       <<Chars("alikum"), Chars("alaikum")>> >>

pashto_variations ==
    << <<Chars("sta"), Chars("sta")>>, <<Chars("staso"), Chars("sta")>>,
       <<Chars("stase"), Chars("sta")>>,
       <<Chars("yast"), Chars("yast")>>, <<Chars("yaste"), Chars("yast")>>,
       <<Chars("yasti"), Chars("yast")>>,
       <<Chars("kaw"), Chars("kaw")>>, <<Chars("kawe"), Chars("kaw")>>,
       <<Chars("kawi"), Chars("kaw")>>,
       <<Chars("manana"), Chars("manana")>>, <<Chars("manena"), Chars("manana")>>,
       <<Chars("manina"), Chars("manana")>>,
       <<Chars("mehrbani"), Chars("mehrbani")>>, <<Chars("mehrabi"), Chars("mehrbani")>>,
       <<Chars("mehrbani"), Chars("mehrbani")>> >>

\* The nested loops of _normalize_roman_*, over the first n table entries.
RECURSIVE NormalizeLoop(_, _, _)
NormalizeLoop(variations, normalized_text, n) ==
    IF n = 0 THEN normalized_text
    ELSE LET before == NormalizeLoop(variations, normalized_text, n - 1)
         IN  IF IsSub(variations[n][1], before)
               THEN replace(before, variations[n][1], variations[n][2])
               ELSE before

normalize_roman_urdu(text) ==
    NormalizeLoop(urdu_variations, lower(text), Len(urdu_variations))

normalize_roman_pashto(text) ==
    NormalizeLoop(pashto_variations, lower(text), Len(pashto_variations))

\* _preprocess_text
preprocess_text(text) ==
    IF Len(strip(text)) < 2 THEN text
    ELSE IF is_roman_urdu(text) THEN normalize_roman_urdu(text)
    ELSE IF is_roman_pashto(text) THEN normalize_roman_pashto(text)
    ELSE text

-----------------------------------------------------------------------------
(* shadow_core/decision_engine.py: DecisionEngine.handle_query and dispatch *)

DidntCatchThat == "I didn't catch that. Could you please repeat?"
ErrorMsg == "I encountered an error processing your request. Please try again."
TroubleThinking == "I'm having trouble thinking right now. Please try again."
NoContentReply ==
    "I'd be happy to help you set up your schedule! What specific schedule would you like to create?"

\* A guard that forgets strip(): only the empty string counts as blank.
IsBlank_NoStrip(text) == text = NoText

\* `not text or text.strip() == ""`
IsBlank(text) == strip(text) = NoText

NoIntent ==
    [intent_type |-> "NONE", confidence |-> 0, needs_clarification |-> FALSE,
     clarification_question |-> "", content |-> "", question_type |-> ""]

(* What IntelligentInterpreter.interpret returns: the fields of
   InterpretedIntent that handle_query and the dispatcher read.             *)
Interpreted(type, conf, clar, content, qtype) ==
    [intent_type |-> type, confidence |-> conf,
     needs_clarification |-> clar # "", clarification_question |-> clar,
     content |-> content, question_type |-> qtype]

InterpretedIntents ==
    {Interpreted("SCHEDULING", conf, clar, c[1], c[2]) :
        conf \in {20, 90}, clar \in {"", "When should I remind you?"},
        c \in {<<"", "">>, <<"meeting", "">>, <<"", "how_to">>}}
    \cup
    {Interpreted(type, conf, "", "", "") :
        type \in {"MESSAGING", "INFORMATION", "AUTOMATION", "CONVERSATION"},
        conf \in {20, 90}}
    \cup
    {Interpreted("MESSAGING", 90, "Who should I send it to?", "", "")}
    \cup
    \* flagged, but clarification_question is None
    {[Interpreted("MESSAGING", 90, "", "", "") EXCEPT !.needs_clarification = TRUE]}

(* How the collaborators of one handle_query call behave.  The first of
   interpret, handler, context and save to raise ends the try body, so at
   most one of them is set; ask and save_err are independent of them.       *)
Failures ==
    {f \in [interpret : BOOLEAN,   \* intelligent_interpreter.interpret raises
            handler   : BOOLEAN,   \* the scheduling handler's helper raises
            ask       : BOOLEAN,   \* brain.ask raises
            context   : BOOLEAN,   \* intelligent_interpreter.update_context raises
            save      : BOOLEAN,   \* memory.save_chat(processed_text, response) raises
            save_err  : BOOLEAN] : \* memory.save_chat(text, error_msg) raises
        Cardinality({k \in {"interpret", "handler", "context", "save"} : f[k]}) <= 1}

(* The result of a step inside handle_query: the exception raised ("" for
   none), the reply produced (<< >> for none) and the engine's state.       *)
Says(reply, st) == [exc |-> "", reply |-> <<reply>>, st |-> st]
Raises(exc, st) == [exc |-> exc, reply |-> << >>, st |-> st]

Invoke(st, handler) == [st EXCEPT !.invoked = @ \cup {handler}]

\* _handle_chat: one brain.ask; whatever is raised becomes a reply.
handle_chat(st, fail) ==
    LET s == [Invoke(st, "chat") EXCEPT !.asks = @ + 1]
    IN  IF fail.ask THEN Says(TroubleThinking, s) ELSE Says("ai_reply", s)

\* _handle_intelligent_scheduling
handle_intelligent_scheduling(st, intent, fail) ==
    LET s == Invoke(st, "scheduling")
    IN  IF intent.question_type = "how_to" \/ intent.content # ""
          THEN IF fail.handler THEN Raises("Exception", s)
               ELSE Says("scheduling_reply", s)
          ELSE Says(NoContentReply, s)

\* _execute_intelligent_intent: the switch on intent_type
execute_intelligent_intent(st, intent, fail) ==
    IF intent.intent_type = "SCHEDULING"
        THEN handle_intelligent_scheduling(st, intent, fail)
    ELSE IF intent.intent_type = "MESSAGING"
        THEN handle_chat(Invoke(st, "messaging"), fail)
    ELSE IF intent.intent_type = "INFORMATION"
        THEN handle_chat(Invoke(st, "information"), fail)
    ELSE IF intent.intent_type = "AUTOMATION"
        THEN handle_chat(Invoke(st, "automation"), fail)
    ELSE handle_chat(st, fail)

\* A check that never finds a question to ask.
AsksBack_Never(intent) == FALSE

\* `interpreted_intent.needs_clarification and
\*  interpreted_intent.clarification_question` (line 117)
AsksBack(intent) == intent.needs_clarification /\ intent.clarification_question # ""

(* The try body of DecisionEngine.handle_query (lines 106-127);
   processed_text is what `await self._preprocess_text(text)` returned.     *)
HandleBody(st, processed_text, intent, fail) ==
    LET s1 == [st EXCEPT !.interprets = @ + 1, !.intent = intent, !.dispatched = FALSE,
                         !.invoked = {}]
    IN  IF fail.interpret THEN Raises("Exception", [s1 EXCEPT !.intent = NoIntent])
        ELSE LET ex == IF AsksBack(intent)
                         THEN Says(intent.clarification_question, s1)
                         ELSE execute_intelligent_intent(
                                  [s1 EXCEPT !.dispatched = TRUE], intent, fail)
             IN  IF ex.exc # "" THEN ex
                 ELSE IF fail.context THEN Raises("Exception", ex.st)
                 ELSE LET s3 == [ex.st EXCEPT
                                   !.context = Append(@, <<processed_text, ex.reply>>)]
                      IN  IF fail.save THEN Raises("Exception", s3)
                          ELSE [ex EXCEPT
                                  !.st = [s3 EXCEPT
                                     !.memory = Append(@, <<processed_text, ex.reply>>)]]

(* DecisionEngine.handle_query: [exc, reply, st].  The except clause saves
   the error message to memory before it returns it; an exception of that
   save_chat is raised out of the handler.                                  *)
DecisionEngine_handle_query(st, text, processed_text, intent, fail) ==
    IF IsBlank(text) THEN Says(DidntCatchThat, st)
    ELSE LET body == HandleBody(st, processed_text, intent, fail)
         IN  IF body.exc = "" THEN body
             ELSE IF fail.save_err THEN Raises("Exception", body.st)
             ELSE Says(ErrorMsg,
                       [body.st EXCEPT !.memory = Append(@, <<text, <<ErrorMsg>>>>)])

-----------------------------------------------------------------------------
(* main.py: Shadow.handle_query, Shadow.safe_handle_query, handle_query *)

DidntCatchAnything == "I didn't catch anything. Please try again."
NetworkTimeout ==
    "Network timeout - The request took too long. Please check your internet connection and try again."
NetworkError == "Network error. Please check your internet connection."

\* clean_output.clean_response_text(response)
Cleaned(reply) == <<"cleaned">> \o reply

(* MultilingualBrain.ask_multilingual as Shadow wires it: main.py hands the
   class UrduPashtoTranslator, not an instance, to MultilingualBrain, so
   self.translator.get_language_name(lang) in the try body and
   self.translator.get_common_phrase('sorry', lang) in the except clause
   both raise TypeError (a positional argument is missing).                 *)
ask_multilingual(st) == Raises("TypeError", st)

\* Shadow.handle_query
Shadow_handle_query(st, text, processed_text, intent, fail) ==
    IF IsBlank(text) THEN Says(DidntCatchAnything, st)
    ELSE LET r == DecisionEngine_handle_query(st, text, processed_text, intent, fail)
         IN  IF r.exc = "" THEN [r EXCEPT !.reply = Cleaned(@)]
             ELSE ask_multilingual(r.st)

\* Shadow.safe_handle_query(text, gui, retries=2)
retries == 2

-----------------------------------------------------------------------------
(* Specification SpecEngine: one turn through each of the three turn
   handlers, for every text, interpreted intent and collaborator failure    *)

EngVocabulary ==
    { Chars(" "), Chars("hi"), Chars("Kese ho aap "),
      Chars("remind me ") }

EngTexts == {Concat(ws) : ws \in SeqsUpTo(EngVocabulary, MaxWords)}

\* The engine's state before the turn: nothing yet, or one earlier chat.
EngStates ==
    { [memory |-> mem, context |-> mem, asks |-> Len(mem), interprets |-> Len(mem),
       invoked |-> {}, intent |-> NoIntent, dispatched |-> FALSE,
       reminder_parses |-> 0] :
         mem \in {<< >>, << <<Chars("hi"), <<"ai_reply">>>> >>} }

InitEngine ==
    /\ stt = IdleStt
    /\ gem = IdleGem
    /\ path = IdlePath
    /\ roman = IdleRoman
    /\ mlm = IdleMlm
    /\ conversation_context = EmptyContext
    /\ ca_context = EmptyContext
    /\ clock = 0
    /\ mq = IdleMq
    /\ turns = IdleTurns
    /\ norm = IdleNorm
    /\ tmpl = IdleTmpl
    /\ hist_adv = << >>
    /\ hist_ca = << >>
    /\ last = NoCall
    /\ nlu = IdleNlu
    /\ eng \in {[pc |-> "idle", entry |-> "none", text |-> t, st |-> st, before |-> st,
                 attempt |-> 0, exc |-> "", reply |-> << >>, tries |-> 0,
                 delivered |-> << >>, timed_out |-> FALSE, abandoned |-> FALSE,
                 late |-> FALSE] :
                   t \in EngTexts, st \in EngStates}
    /\ brain = IdleBrain

Done(entry, r) ==
    [eng EXCEPT !.pc = "done", !.entry = entry, !.st = r.st, !.exc = r.exc,
                !.reply = r.reply, !.delivered = r.reply]

\* A call of DecisionEngine.handle_query(text).
EngineHandleQuery ==
    /\ eng.pc = "idle"
    /\ \E processed_text \in {preprocess_text(eng.text)} :
       \E intent \in InterpretedIntents, fail \in Failures :
           /\ eng' = Done("engine", DecisionEngine_handle_query(eng.st, eng.text,
                                        processed_text, intent, fail))
           /\ UNCHANGED <<stt, gem, path, roman, mlm, mq, turns, norm, tmpl, conversation_context, ca_context, clock, hist_adv, hist_ca,
                          last, nlu, brain>>

\* A call of Shadow.handle_query(text).
ShadowHandleQuery ==
    /\ eng.pc = "idle"
    /\ \E processed_text \in {preprocess_text(eng.text)} :
       \E intent \in InterpretedIntents, fail \in Failures :
           /\ eng' = Done("shadow", Shadow_handle_query(eng.st, eng.text,
                                        processed_text, intent, fail))
           /\ UNCHANGED <<stt, gem, path, roman, mlm, mq, turns, norm, tmpl, conversation_context, ca_context, clock, hist_adv, hist_ca,
                          last, nlu, brain>>

(* The end of one attempt of safe_handle_query inside main.py's
   handle_query: the reply goes back through wait_for; an exception leads to
   the sleep before the next attempt or, after the last attempt, to
   handle_query's except clause.                                            *)
Attempt(r) ==
    IF r.exc = "" THEN Done("main", r)
    ELSE IF eng.attempt + 1 < retries
        THEN [eng EXCEPT !.pc = "sleeping", !.entry = "main", !.st = r.st,
                         !.attempt = @ + 1]
    ELSE Done("main", Says(NetworkError, r.st))

(* A call of main.py's handle_query(query) up to its first suspension.  The
   texts hold neither "send" nor "message" and do not start with "set timer",
   so the message queue and the timer branch are not entered; `safe` is the
   verdict of SAFETY.check_request.  A query that passes is handed to
   wait_for(SHADOW.safe_handle_query(query, gui), timeout=25), whose first
   attempt is then in flight.                                               *)
MainHandleQuery ==
    /\ eng.pc = "idle"
    /\ \E safe \in BOOLEAN :
           /\ eng' = IF IsBlank(eng.text)
                       THEN Done("main", Says(DidntCatchAnything, eng.st))
                     ELSE IF ~safe THEN Done("main", Says("safety_message", eng.st))
                     ELSE [eng EXCEPT !.pc = "awaiting", !.entry = "main", !.tries = 1]
           /\ UNCHANGED <<stt, gem, path, roman, mlm, mq, turns, norm, tmpl, conversation_context, ca_context, clock,
                          hist_adv, hist_ca, last, nlu, brain>>

\* The attempt in flight ends: Shadow.handle_query returns or raises.
MainAttemptEnds ==
    /\ eng.pc = "awaiting"
    /\ \E processed_text \in {preprocess_text(eng.text)} :
       \E intent \in InterpretedIntents, fail \in Failures :
           /\ eng' = Attempt(Shadow_handle_query(eng.st, eng.text, processed_text,
                                                  intent, fail))
           /\ UNCHANGED <<stt, gem, path, roman, mlm, mq, turns, norm, tmpl, conversation_context, ca_context, clock,
                          hist_adv, hist_ca, last, nlu, brain>>

\* safe_handle_query wakes from asyncio.sleep(1) and starts the next attempt.
MainRetry ==
    /\ eng.pc = "sleeping"
    /\ eng' = [eng EXCEPT !.pc = "awaiting", !.tries = @ + 1]
    /\ UNCHANGED <<stt, gem, path, roman, mlm, mq, turns, norm, tmpl, conversation_context, ca_context, clock,
                   hist_adv, hist_ca, last, nlu, brain>>

\* No collaborator fails.
NoFailure ==
    [interpret |-> FALSE, handler |-> FALSE, ask |-> FALSE, context |-> FALSE,
     save |-> FALSE, save_err |-> FALSE]

(* The engine's state when the attempt in flight is cancelled at an await:
   in interpret (`point` = "interpret"), or in the handler's brain.ask, after
   which neither the context nor the memory is updated ("ask").             *)
CancelledAt(point, st, processed_text, intent) ==
    IF point = "interpret"
      THEN HandleBody(st, processed_text, intent, [NoFailure EXCEPT !.interpret = TRUE]).st
    ELSE HandleBody(st, processed_text, intent, [NoFailure EXCEPT !.context = TRUE]).st

\* A late result that is passed on to the user after all.
LateResult_Delivered(delivered, reply) == delivered \o reply

\* What reaches the user of a result that arrives after the timeout: nothing,
\* wait_for has cancelled the call that would have returned it.
LateResult(delivered, reply) == delivered

(* asyncio.wait_for(..., timeout=25) gives up: during the sleep between two
   attempts, or while an attempt is in flight, which it cancels at the await
   where it is suspended; the provider request of a cancelled brain.ask is
   still out (eng.abandoned).                                               *)
MainTimeout ==
    \/ /\ eng.pc = "sleeping"
       /\ eng' = [Done("main", Says(NetworkTimeout, eng.st)) EXCEPT !.timed_out = TRUE]
       /\ UNCHANGED <<stt, gem, path, roman, mlm, mq, turns, norm, tmpl, conversation_context, ca_context, clock,
                      hist_adv, hist_ca, last, nlu, brain>>
    \/ /\ eng.pc = "awaiting"
       /\ \E processed_text \in {preprocess_text(eng.text)} :
          \E intent \in InterpretedIntents, point \in {"interpret", "ask"} :
              /\ point = "ask" => ~AsksBack(intent)
              /\ \E st \in {CancelledAt(point, eng.st, processed_text, intent)} :
                     /\ point = "ask" => "chat" \in st.invoked
                     /\ eng' = [Done("main", Says(NetworkTimeout, st)) EXCEPT
                                  !.timed_out = TRUE, !.abandoned = TRUE]
       /\ UNCHANGED <<stt, gem, path, roman, mlm, mq, turns, norm, tmpl, conversation_context, ca_context, clock,
                      hist_adv, hist_ca, last, nlu, brain>>

\* The provider answers the request of the cancelled call.
MainLateResult ==
    /\ eng.pc = "done"
    /\ eng.abandoned
    /\ eng' = [eng EXCEPT !.abandoned = FALSE, !.late = TRUE,
                          !.delivered = LateResult(@, <<"ai_reply">>)]
    /\ UNCHANGED <<stt, gem, path, roman, mlm, mq, turns, norm, tmpl, conversation_context, ca_context, clock,
                   hist_adv, hist_ca, last, nlu, brain>>

NextEngine ==
    \/ EngineHandleQuery
    \/ ShadowHandleQuery
    \/ MainHandleQuery
    \/ MainAttemptEnds
    \/ MainRetry
    \/ MainTimeout
    \/ MainLateResult

SpecEngine == InitEngine /\ [][NextEngine]_vars

\* C2: whenever the dispatcher is reached with an intent whose confidence is
\* below 0.3, only the chat handler is invoked, whatever the intent's type.
C2_LowConfidenceOnlyChat ==
    (eng.pc = "done" /\ eng.st.dispatched /\ eng.st.intent.confidence < 30)
        => eng.st.invoked \subseteq {"chat"}

\* C8: every finished call of a turn handler (DecisionEngine.handle_query,
\* Shadow.handle_query, main.py's handle_query) has returned a reply; no
\* exception has escaped it, whichever collaborator failed.
C8_TurnAlwaysReplies ==
    eng.pc = "done" => (eng.exc = "" /\ eng.reply # << >>)

\* C9: for empty or whitespace-only input each turn handler returns its fixed
\* "didn't catch" reply without raising, and the interpreter, the handlers,
\* the AI, the conversation context and the chat memory are left untouched.
C9_BlankInputShortCircuits ==
    (eng.pc = "done" /\ strip(eng.text) = NoText) =>
        /\ eng.exc = ""
        /\ eng.reply = IF eng.entry = "engine" THEN <<DidntCatchThat>>
                       ELSE <<DidntCatchAnything>>
        /\ eng.st = eng.before

\* C9, for NLU.classify: a blank text returns ('chat', {}) before any tier
\* runs and without asking the AI.
C9_ClassifyBlank ==
    (nlu.op = "classify" /\ strip(nlu.text) = NoText) =>
        (nlu.exc = "" /\ nlu.val = DefaultChat /\ nlu.tier = 0 /\ nlu.aiCalls = 0)

\* A whitespace-only text reached the engine that already holds a chat.
C9_Witness ==
    /\ eng.pc = "done"
    /\ eng.entry = "engine"
    /\ eng.text = <<" ", " ">>
    /\ eng.reply = <<DidntCatchThat>>
    /\ Len(eng.st.memory) = 1

(* The reminder keyword sets of MultilingualReminderParser, one word per
   language (English, Roman Urdu, Roman Pashto).                            *)
ReminderKeywords == {Chars("remind"), Chars("yaad"), Chars("yadawa")}

MatchesReminderKeywords(text) == AnyIn(ReminderKeywords, lower(text))

\* C19: a turn of DecisionEngine.handle_query whose text matches a reminder
\* keyword goes to the reminder parser and does not invoke the interpreter.
C19_ReminderBypassesClassifier ==
    (eng.pc = "done" /\ eng.entry = "engine" /\ MatchesReminderKeywords(eng.text)) =>
        /\ eng.st.interprets = eng.before.interprets
        /\ eng.st.reminder_parses = eng.before.reminder_parses + 1

\* C19, what the code does with every text that is not blank: the
\* interpreter is invoked once and the reminder parser is not.
C19_EveryTextInterpreted ==
    (eng.pc = "done" /\ eng.entry = "engine" /\ ~IsBlank(eng.text)) =>
        /\ eng.st.interprets = eng.before.interprets + 1
        /\ eng.st.reminder_parses = eng.before.reminder_parses

C16_FailureOnlyAfterSecondAttempt ==
    /\ eng.entry = "main" => eng.tries <= 2
    /\ (/\ eng.pc = "done"
        /\ eng.entry = "main"
        /\ eng.reply \in {<<NetworkError>>, Cleaned(<<TroubleThinking>>)})
       => eng.tries = 2

\* C16, the part the code keeps: an exception out of Shadow.handle_query is
\* answered by a second attempt, and only two raising attempts give the
\* network-error reply.
C16_RaisingAttemptRetried ==
    /\ eng.entry = "main" => eng.tries <= 2
    /\ (eng.pc = "done" /\ eng.entry = "main" /\ eng.reply = <<NetworkError>>)
       => (eng.tries = 2 /\ eng.attempt = 1)

\* The intent is flagged as needing clarification and carries a question.
FlaggedWithQuestion(intent) ==
    intent.needs_clarification /\ intent.clarification_question # ""

\* A request to create a scheduled item that carries no content.
CreateWithoutContent(intent) ==
    /\ intent.intent_type = "SCHEDULING"
    /\ intent.question_type # "how_to"
    /\ intent.content = ""

\* A turn of DecisionEngine.handle_query that was interpreted and in which
\* no collaborator raised.
TurnWentThrough ==
    /\ eng.pc = "done"
    /\ eng.entry = "engine"
    /\ eng.st.intent # NoIntent
    /\ eng.exc = ""
    /\ eng.reply # <<ErrorMsg>>

\* The turn's reply is the clarifying question for the intent, and neither
\* the AI chat nor the messaging or scheduling capability was invoked.
AskedBack(intent) ==
    /\ eng.reply = <<IF FlaggedWithQuestion(intent) THEN intent.clarification_question
                     ELSE NoContentReply>>
    /\ eng.st.asks = eng.before.asks
    /\ eng.st.invoked \subseteq {"scheduling"}
    /\ eng.st.memory = Append(eng.before.memory, <<preprocess_text(eng.text), eng.reply>>)

-----------------------------------------------------------------------------
(* Specification SpecFallback: turns of DecisionEngine.handle_query in which
   the interpreter could only give its structural fallback (Tier 4): the
   intent of the keyword ladder at the fixed confidence 0.3                 *)

\* The name of the IntentType member with the given value
MemberName(value) ==
    CASE value = "knowledge" -> "KNOWLEDGE"
      [] value = "messaging" -> "MESSAGING"
      [] value = "scheduling" -> "SCHEDULING"
      [] value = "automation" -> "AUTOMATION"
      [] OTHER -> "CHAT"

\* The fallback intent as the dispatcher reads it
FallbackInterpreted(text) ==
    LET intent == create_fallback_intent(text)
    IN  Interpreted(MemberName(intent.intent_type), intent.confidence, "", "", "")

FallbackVocabulary ==
    { Chars(" "), Chars("hi "), Chars("remind me "), Chars("send it "),
      Chars("open it "), Chars("weather ") }

FallbackTexts == {Concat(ws) : ws \in SeqsUpTo(FallbackVocabulary, MaxWords)}

InitFallback ==
    /\ stt = IdleStt
    /\ gem = IdleGem
    /\ path = IdlePath
    /\ conversation_context = EmptyContext
    /\ ca_context = EmptyContext
    /\ clock = 0
    /\ mq = IdleMq
    /\ turns = IdleTurns
    /\ norm = IdleNorm
    /\ tmpl = IdleTmpl
    /\ hist_adv = << >>
    /\ hist_ca = << >>
    /\ last = NoCall
    /\ nlu = IdleNlu
    /\ brain = IdleBrain
    /\ mlm = IdleMlm
    /\ roman = IdleRoman
    /\ eng \in {[pc |-> "idle", entry |-> "none", text |-> t, st |-> st, before |-> st,
                 attempt |-> 0, exc |-> "", reply |-> << >>, tries |-> 0,
                 delivered |-> << >>, timed_out |-> FALSE, abandoned |-> FALSE,
                 late |-> FALSE] :
                   t \in FallbackTexts, st \in EngStates}

\* A call of DecisionEngine.handle_query(text) whose interpretation is the
\* fallback intent of the preprocessed text.
FallbackTurn ==
    /\ eng.pc = "idle"
    /\ \E processed_text \in {preprocess_text(eng.text)} :
       \E fail \in Failures :
           eng' = Done("engine", DecisionEngine_handle_query(eng.st, eng.text,
                       processed_text, FallbackInterpreted(processed_text), fail))
    /\ UNCHANGED <<stt, gem, path, roman, mlm, mq, turns, norm, tmpl, conversation_context, ca_context,
                   clock, hist_adv, hist_ca, last, nlu, brain>>

NextFallback == FallbackTurn

SpecFallback == InitFallback /\ [][NextFallback]_vars

\* C24: every fallback intent (confidence 0.3) that reaches the dispatcher
\* ends in the chat handler, whatever type the keyword ladder gave it, and
\* not in a handler that does the work of a capability (the messaging,
\* information and automation handlers only pass the text on to the chat
\* handler).
C24_FallbackRoutedToChat ==
    (/\ eng.pc = "done"
     /\ eng.st.dispatched
     /\ eng.st.intent.confidence = FallbackConfidence)
        => ("chat" \in eng.st.invoked /\ "scheduling" \notin eng.st.invoked)

\* C24, what the code does: the type alone routes the fallback intent; only
\* the types without a handler of their own go straight to the chat handler.
C24_FallbackRoutedByType ==
    (/\ eng.pc = "done"
     /\ eng.st.dispatched
     /\ eng.st.intent.confidence = FallbackConfidence)
        => eng.st.invoked =
             CASE eng.st.intent.intent_type = "SCHEDULING" -> {"scheduling"}
               [] eng.st.intent.intent_type = "MESSAGING" -> {"messaging", "chat"}
               [] eng.st.intent.intent_type = "AUTOMATION" -> {"automation", "chat"}
               [] OTHER -> {"chat"}


-----------------------------------------------------------------------------
(* Specification SpecNormalize: the two normalisers applied once and twice to
   every text of a vocabulary of Roman Urdu and Roman Pashto words          *)

NormVocabulary ==
    { Chars(" "), Chars("hi "), Chars("aap"), Chars("Main "), Chars("salam"),
      Chars("yastie"), Chars("sta ") }

NormTexts == {Concat(ws) : ws \in SeqsUpTo(NormVocabulary, MaxWords)}

\* normalize(text, lang) for the two languages that have a normaliser
normalize(text, lang) ==
    IF lang = "ur" THEN normalize_roman_urdu(text) ELSE normalize_roman_pashto(text)

InitNormalize ==
    /\ stt = IdleStt
    /\ gem = IdleGem
    /\ path = IdlePath
    /\ roman = IdleRoman
    /\ mlm = IdleMlm
    /\ conversation_context = EmptyContext
    /\ ca_context = EmptyContext
    /\ clock = 0
    /\ mq = IdleMq
    /\ turns = IdleTurns
    /\ tmpl = IdleTmpl
    /\ hist_adv = << >>
    /\ hist_ca = << >>
    /\ last = NoCall
    /\ nlu = IdleNlu
    /\ eng = IdleEng
    /\ brain = IdleBrain
    /\ norm \in {[op |-> "none", text |-> t] : t \in NormTexts}

\* The normaliser of one language is applied to the text, and again to its
\* own result.
Normalize ==
    /\ norm.op = "none"
    /\ \E lang \in {"ur", "ps"} :
       \E once \in {normalize(norm.text, lang)} :
           norm' = [op |-> "normalize", text |-> norm.text, lang |-> lang,
                    once |-> once, twice |-> normalize(once, lang)]
    /\ UNCHANGED <<stt, gem, path, roman, mlm, mq, turns, tmpl, conversation_context, ca_context, clock, hist_adv,
                   hist_ca, last, nlu, eng, brain>>

NextNormalize == Normalize

SpecNormalize == InitNormalize /\ [][NextNormalize]_vars

\* C17: normalising a normalised text changes nothing, for Roman Urdu and
\* for Roman Pashto.
C17_NormalizeIdempotent ==
    norm.op = "normalize" => norm.twice = norm.once

\* C17 for Roman Pashto alone.
C17_PashtoIdempotent ==
    (norm.op = "normalize" /\ norm.lang = "ps") => norm.twice = norm.once

-----------------------------------------------------------------------------
(* Reply templates: decision_engine.py's _provide_setup_guidance,
   _provide_general_setup_help and _create_scheduled_item, and
   UrduPashtoTranslator.get_common_phrase of multilingual.py.  A piece of
   reply text is known by the language it is written in and by the template
   it comes from; a reply is the sequence of its pieces.                    *)

Languages == {"en", "ur", "ps"}

\* Codes a language detector can hand over; "fr" has no templates.
LanguageCodes == Languages \cup {"fr"}

Text(lang, template) == [lang |-> lang, template |-> template]

\* if language == 'ur': ... elif language == 'ps': ... else: ...
Branch(language) ==
    IF language = "ur" THEN "ur" ELSE IF language = "ps" THEN "ps" ELSE "en"

\* _provide_setup_guidance, given what _detect_language returned
provide_setup_guidance(target, language) ==
    LET response == IF target \in {"schedule", "reminder", "task"}
                      THEN Text(Branch(language), <<"guidance", target>>)
                    ELSE Text("en", <<"guidance", "default">>)
    IN  <<response, Text(Branch(language), <<"guidance", "offer">>)>>

\* _provide_general_setup_help
provide_general_setup_help(target, language) ==
    IF target \in {"schedule", "reminder", "calendar"}
      THEN <<Text(Branch(language), <<"help", target>>)>>
    ELSE <<Text("en", <<"help", "default">>)>>

\* _create_scheduled_item; `scheduler` is "none", "ok" or "raises"
create_scheduled_item(scheduler, urgency, has_time_reference, language) ==
    IF scheduler = "none" THEN <<Text(Branch(language), <<"item", "unavailable">>)>>
    ELSE IF scheduler = "raises" THEN <<Text(Branch(language), <<"item", "issue">>)>>
    ELSE << Text(Branch(language), <<"item", "confirm">>),
            Text(Branch(language),
                 <<"item", IF urgency \in {"high", "medium"} THEN urgency ELSE "low">>),
            Text(Branch(language),
                 <<"item", IF has_time_reference THEN "ready" ELSE "ask_time">>) >>

PhraseKeys ==
    {"greeting", "how_are_you", "thank_you", "goodbye", "yes", "no", "please", "sorry"}

\* self.common_phrases
common_phrases ==
    [lang \in Languages |-> [key \in PhraseKeys |-> Text(lang, <<"phrase", key>>)]]

\* The phrase key itself, handed back in place of a phrase.
RawKey(phrase_key) == Text("key", <<"phrase", phrase_key>>)

\* dict.get(key, default)
DictGet(dict, key, default) == IF key \in DOMAIN dict THEN dict[key] ELSE default

\* UrduPashtoTranslator.get_common_phrase:
\* self.common_phrases.get(language, {}).get(phrase_key, phrase_key)
get_common_phrase(phrase_key, language) ==
    <<DictGet(DictGet(common_phrases, language, << >>), phrase_key, RawKey(phrase_key))>>

\* The template lookups a reply can ask for.
TemplateRequests ==
    {[kind |-> "guidance", target |-> t] : t \in {"schedule", "reminder", "task", "event"}}
    \cup {[kind |-> "help", target |-> t] :
            t \in {"schedule", "reminder", "calendar", "task"}}
    \cup {[kind |-> "item", scheduler |-> sch, urgency |-> u, has_time_reference |-> h] :
            sch \in {"none", "ok", "raises"}, u \in {"high", "medium", "low"},
            h \in BOOLEAN}
    \cup {[kind |-> "phrase", key |-> k] : k \in PhraseKeys \cup {"welcome"}}

\* compose(request, language): the reply text of one lookup
compose(request, language) ==
    IF request.kind = "guidance" THEN provide_setup_guidance(request.target, language)
    ELSE IF request.kind = "help" THEN provide_general_setup_help(request.target, language)
    ELSE IF request.kind = "item"
      THEN create_scheduled_item(request.scheduler, request.urgency,
                                 request.has_time_reference, language)
    ELSE get_common_phrase(request.key, language)

InitTemplates ==
    /\ stt = IdleStt
    /\ gem = IdleGem
    /\ path = IdlePath
    /\ roman = IdleRoman
    /\ mlm = IdleMlm
    /\ conversation_context = EmptyContext
    /\ ca_context = EmptyContext
    /\ clock = 0
    /\ mq = IdleMq
    /\ turns = IdleTurns
    /\ norm = IdleNorm
    /\ hist_adv = << >>
    /\ hist_ca = << >>
    /\ last = NoCall
    /\ nlu = IdleNlu
    /\ eng = IdleEng
    /\ brain = IdleBrain
    /\ tmpl \in {[op |-> "none", language |-> l] : l \in LanguageCodes}

\* One template lookup in the language at hand.
Compose ==
    /\ tmpl.op = "none"
    /\ \E request \in TemplateRequests :
           tmpl' = [op |-> "compose", language |-> tmpl.language, request |-> request,
                    result |-> compose(request, tmpl.language),
                    english |-> compose(request, "en")]
    /\ UNCHANGED <<stt, gem, path, roman, mlm, mq, turns, norm, conversation_context, ca_context, clock, hist_adv,
                   hist_ca, last, nlu, eng, brain>>

NextTemplates == Compose

SpecTemplates == InitTemplates /\ [][NextTemplates]_vars

\* C18: for a language code outside en, ur, ps every template lookup gives
\* a non-empty reply that is the English one.
C18_UnsupportedLanguageGivesEnglish ==
    (tmpl.op = "compose" /\ tmpl.language \notin Languages) =>
        /\ tmpl.result # << >>
        /\ tmpl.result = tmpl.english
        /\ \A i \in DOMAIN tmpl.result : tmpl.result[i].lang = "en"

\* C18 for the templates of decision_engine.py alone, which keep it.
C18_EngineTemplatesGiveEnglish ==
    (tmpl.op = "compose" /\ tmpl.language \notin Languages
        /\ tmpl.request.kind # "phrase") =>
        /\ tmpl.result # << >>
        /\ tmpl.result = tmpl.english
        /\ \A i \in DOMAIN tmpl.result : tmpl.result[i].lang = "en"

-----------------------------------------------------------------------------
(* brain.py: ShadowBrain's rate limiting (GeminiFlashBrain in free_gemini.py
   has the same fields, the same _check_rate_limits and the same opening of
   ask).  Times are whole seconds since the brain was constructed.         *)

requests_per_minute == 55
requests_per_day == 1400

RateLimited == "I've reached my free API limit for now. Please try again in a minute."
ServiceIssue ==
    "I'm experiencing a temporary issue with the AI service. Please try again in a moment. Error: "
ResponseText == "response_text"

\* The timestamps of the list that are later than `limit`, in order.
After(request_timestamps, limit) ==
    SelectSeq(request_timestamps, LAMBDA ts : ts > limit)

\* A limit check that lets the request at the limit through.
AtLimit_Over(count, limit) == count > limit

\* self.daily_requests >= self.requests_per_day,
\* len(recent_requests) >= self.requests_per_minute
AtLimit(count, limit) == count >= limit

\* ShadowBrain._check_rate_limits: the verdict and the brain after the check
\* (the daily counter is reset when more than a day has passed).
check_rate_limits(b, current_time) ==
    LET b1 == IF current_time - b.last_reset_time > 86400
                THEN [b EXCEPT !.daily_requests = 0, !.last_reset_time = current_time]
              ELSE b
        minute_ago      == current_time - 60
        recent_requests == After(b1.request_timestamps, minute_ago)
    IN  [b  |-> b1,
         ok |-> IF AtLimit(b1.daily_requests, requests_per_day) THEN FALSE
                ELSE IF AtLimit(Len(recent_requests), requests_per_minute) THEN FALSE
                ELSE TRUE]

(* ShadowBrain.ask at time current_time; `outcome` is what the provider call
   does ("ok": it answers, "error": it raises and the except clause builds
   the reply).  provider_calls counts the calls of model.generate_content.  *)
ask(b, current_time, outcome) ==
    LET c == check_rate_limits(b, current_time)
        two_minutes_ago == current_time - 120
        tracked == [c.b EXCEPT
                      !.request_timestamps = After(Append(@, current_time), two_minutes_ago),
                      !.daily_requests = @ + 1,
                      !.provider_calls = @ + 1]
    IN  IF ~c.ok THEN [b |-> c.b, reply |-> RateLimited]
        ELSE [b |-> tracked,
              reply |-> IF outcome = "ok" THEN ResponseText ELSE ServiceIssue]

-----------------------------------------------------------------------------
(* Specification SpecBrain: asks and the passing of time, from a fresh brain
   and from brains close to the per-minute and the per-day limit           *)

MaxAsks == 3
MaxTicks == 3

\* `n` requests made in the second `t`.
Burst(n, t) == [i \in 1..n |-> t]

(* Brains the program reaches: fresh; after 54 requests within one second;
   after 1399 requests of which the last was just made; after 1399 requests
   of which the last 54 came within one second.                            *)
BrainStates ==
    { [request_timestamps |-> << >>, daily_requests |-> 0, now |-> 0],
      [request_timestamps |-> Burst(requests_per_minute - 1, 10),
       daily_requests |-> requests_per_minute - 1, now |-> 10],
      [request_timestamps |-> Burst(1, 86000),
       daily_requests |-> requests_per_day - 1, now |-> 86000],
      [request_timestamps |-> Burst(requests_per_minute - 1, 86300),
       daily_requests |-> requests_per_day - 1, now |-> 86300] }

\* Seconds that pass between two asks.
Delays == {1, 59, 86400}

Snapshot(b) ==
    [request_timestamps |-> b.request_timestamps, daily_requests |-> b.daily_requests,
     last_reset_time |-> b.last_reset_time, provider_calls |-> b.provider_calls]

InitBrain ==
    /\ stt = IdleStt
    /\ gem = IdleGem
    /\ path = IdlePath
    /\ roman = IdleRoman
    /\ mlm = IdleMlm
    /\ conversation_context = EmptyContext
    /\ ca_context = EmptyContext
    /\ clock = 0
    /\ mq = IdleMq
    /\ turns = IdleTurns
    /\ norm = IdleNorm
    /\ tmpl = IdleTmpl
    /\ hist_adv = << >>
    /\ hist_ca = << >>
    /\ last = NoCall
    /\ nlu = IdleNlu
    /\ eng = IdleEng
    /\ brain \in {[op |-> "none", now |-> s.now, asks |-> 0, ticks |-> 0,
                   request_timestamps |-> s.request_timestamps,
                   daily_requests |-> s.daily_requests, last_reset_time |-> 0,
                   provider_calls |-> s.daily_requests, reply |-> "",
                   before |-> [request_timestamps |-> s.request_timestamps,
                               daily_requests |-> s.daily_requests,
                               last_reset_time |-> 0,
                               provider_calls |-> s.daily_requests]] :
                     s \in BrainStates}

\* One call of ShadowBrain.ask.
Ask ==
    /\ brain.asks < MaxAsks
    /\ \E outcome \in {"ok", "error"} :
       \E r \in {ask(brain, brain.now, outcome)} :
           brain' = [r.b EXCEPT !.op = "ask", !.asks = @ + 1, !.reply = r.reply,
                                !.before = Snapshot(brain)]
    /\ UNCHANGED <<stt, gem, path, roman, mlm, mq, turns, norm, tmpl, conversation_context, ca_context, clock, hist_adv, hist_ca, last,
                   nlu, eng>>

\* Time passes.
Tick ==
    /\ brain.ticks < MaxTicks
    /\ \E d \in Delays :
           brain' = [brain EXCEPT !.op = "tick", !.ticks = @ + 1, !.now = @ + d]
    /\ UNCHANGED <<stt, gem, path, roman, mlm, mq, turns, norm, tmpl, conversation_context, ca_context, clock, hist_adv, hist_ca, last,
                   nlu, eng>>

NextBrain ==
    \/ Ask
    \/ Tick

SpecBrain == InitBrain /\ [][NextBrain]_vars

\* The requests of the snapshot that fall into the minute before `now`.
RecentBefore(now) ==
    Cardinality({i \in DOMAIN brain.before.request_timestamps :
                    brain.before.request_timestamps[i] > now - 60})

\* C10: when an ask arrives while the per-minute budget (55 requests in the
\* last 60 seconds) or the per-day budget (1400 requests since a reset not
\* more than a day old) is used up, the reply is the fixed rate-limited
\* message, the provider is not called and no budget is consumed.
C10_ExhaustedBudgetShortCircuits ==
    (/\ brain.op = "ask"
     /\ \/ RecentBefore(brain.now) >= 55
        \/ (brain.before.daily_requests >= 1400
            /\ brain.now - brain.before.last_reset_time <= 86400))
    => /\ brain.reply = RateLimited
       /\ brain.provider_calls = brain.before.provider_calls
       /\ brain.request_timestamps = brain.before.request_timestamps

\* C10, the other direction: once the budget has freed up the provider is
\* called again.
C10_FreedBudgetCallsProvider ==
    (/\ brain.op = "ask"
     /\ RecentBefore(brain.now) < 55
     /\ (brain.before.daily_requests < 1400
         \/ brain.now - brain.before.last_reset_time > 86400))
    => /\ brain.reply # RateLimited
       /\ brain.provider_calls = brain.before.provider_calls + 1

\* The 56th ask within a minute was turned away while the day's budget was
\* not used up.
C10_Witness ==
    /\ brain.op = "ask"
    /\ brain.reply = RateLimited
    /\ Len(brain.before.request_timestamps) = 55
    /\ RecentBefore(brain.now) = 55
    /\ brain.before.daily_requests < 1400

-----------------------------------------------------------------------------
(* Specification SpecAsks: concurrent ask calls.  Every ask coroutine runs on
   the one background loop BG_LOOP (main.py hands each turn to it with
   run_coroutine_threadsafe), and ShadowBrain.ask does not await between
   _check_rate_limits and the update of the counters, so the check and the
   increment of one call run without another call in between; the calls
   interleave at `await ... run_in_executor(...)`, while the provider works.
   brain.forwarded is the history of the requests handed to the provider,
   as runs [t, n] of n requests in second t; brain.pending counts the calls
   the provider has not answered yet.                                       *)

\* k runs of n requests, 60 seconds apart, the first in second t.
Runs(k, n, t) == [i \in 1..k |-> [t |-> t + 60 * (i - 1), n |-> n]]

(* Brains the program reaches, with their histories: fresh; 54 requests in
   second 10; 1399 requests late in the first day, the last 54 of them in
   second 86300.                                                            *)
AskStates ==
    { [request_timestamps |-> << >>, daily_requests |-> 0, now |-> 0,
       forwarded |-> << >>],
      [request_timestamps |-> Burst(requests_per_minute - 1, 10),
       daily_requests |-> requests_per_minute - 1, now |-> 10,
       forwarded |-> Runs(1, requests_per_minute - 1, 10)],
      [request_timestamps |-> Burst(requests_per_minute - 1, 86300),
       daily_requests |-> requests_per_day - 1, now |-> 86300,
       forwarded |-> Runs(24, 54, 84000) \o Runs(1, 49, 85440) \o Runs(1, 54, 86300)] }

InitAsks ==
    /\ stt = IdleStt
    /\ gem = IdleGem
    /\ path = IdlePath
    /\ roman = IdleRoman
    /\ mlm = IdleMlm
    /\ conversation_context = EmptyContext
    /\ ca_context = EmptyContext
    /\ clock = 0
    /\ mq = IdleMq
    /\ turns = IdleTurns
    /\ norm = IdleNorm
    /\ tmpl = IdleTmpl
    /\ hist_adv = << >>
    /\ hist_ca = << >>
    /\ last = NoCall
    /\ nlu = IdleNlu
    /\ eng = IdleEng
    /\ brain \in {[op |-> "none", now |-> s.now, asks |-> 0, ticks |-> 0,
                   request_timestamps |-> s.request_timestamps,
                   daily_requests |-> s.daily_requests, last_reset_time |-> 0,
                   provider_calls |-> s.daily_requests, forwarded |-> s.forwarded,
                   pending |-> 0, replies |-> << >>] :
                     s \in AskStates}

(* An ask coroutine runs from its start to its first suspension: it is
   turned away with the fixed reply, or it records the request and hands it
   to the provider.                                                         *)
AskStart ==
    /\ brain.asks < MaxAsks
    /\ \E r \in {ask(brain, brain.now, "ok")} :
           brain' = IF r.reply = RateLimited
                      THEN [r.b EXCEPT !.op = "turned_away", !.asks = @ + 1,
                                       !.replies = Append(@, RateLimited)]
                    ELSE [r.b EXCEPT !.op = "forwarded", !.asks = @ + 1,
                                     !.pending = @ + 1,
                                     !.forwarded = Append(@, [t |-> brain.now, n |-> 1])]
    /\ UNCHANGED <<stt, gem, path, roman, mlm, mq, turns, norm, tmpl, conversation_context, ca_context, clock, hist_adv, hist_ca, last,
                   nlu, eng>>

\* The provider answers (or fails) one of the pending calls; ask returns.
AskFinish ==
    /\ brain.pending > 0
    /\ \E outcome \in {"ok", "error"} :
           brain' = [brain EXCEPT !.op = "answered", !.pending = @ - 1,
                                  !.replies = Append(@, IF outcome = "ok" THEN ResponseText
                                                        ELSE ServiceIssue)]
    /\ UNCHANGED <<stt, gem, path, roman, mlm, mq, turns, norm, tmpl, conversation_context, ca_context, clock, hist_adv, hist_ca, last,
                   nlu, eng>>

\* Time passes while calls are pending or between calls.
AskTick ==
    /\ brain.ticks < MaxTicks
    /\ \E d \in Delays :
           brain' = [brain EXCEPT !.op = "tick", !.ticks = @ + 1, !.now = @ + d]
    /\ UNCHANGED <<stt, gem, path, roman, mlm, mq, turns, norm, tmpl, conversation_context, ca_context, clock, hist_adv, hist_ca, last,
                   nlu, eng>>

NextAsks ==
    \/ AskStart
    \/ AskFinish
    \/ AskTick

SpecAsks == InitAsks /\ [][NextAsks]_vars

RECURSIVE SumRuns(_, _)
\* The number of requests of the history `runs` made after second `since`.
SumRuns(runs, since) ==
    IF runs = << >> THEN 0
    ELSE (IF Head(runs).t > since THEN Head(runs).n ELSE 0) + SumRuns(Tail(runs), since)

\* C11: in every interleaving of concurrent asks, at most 55 requests were
\* forwarded to the provider in the 60 seconds up to now and at most 1400 in
\* the 24 hours up to now.
C11_RollingBudgetsKept ==
    /\ SumRuns(brain.forwarded, brain.now - 60) <= 55
    /\ SumRuns(brain.forwarded, brain.now - 86400) <= 1400

\* C11, the part the code keeps: the rolling minute budget, and the check
\* and the increment acting as one step (every forwarded request is counted
\* before the next check).
C11_MinuteBudgetKept ==
    /\ SumRuns(brain.forwarded, brain.now - 60) <= 55
    /\ brain.provider_calls = SumRuns(brain.forwarded, -1)

-----------------------------------------------------------------------------
(* main.py: the outbound message queue.  handle_query's messaging branch
   puts (platform, contact, msg, gui) on SHADOW.message_queue, an unbounded
   asyncio.Queue; the single message_worker task takes the items off it.
   Both run on BG_LOOP and interleave at their awaits.  A message is known
   by its number in the order of queueing.                                  *)

MaxMessages == 3

\* What Messaging.parse_command makes of a query: the platform may be None,
\* and contact or msg may be missing (then nothing is queued).
ParsedCommands ==
    { [platform |-> p, complete |-> c] :
        p \in {"None", "whatsapp", "sms"}, c \in BOOLEAN }

\* A queue that hands out its newest item first.
QueueGet_Lifo(queue) ==
    [item |-> queue[Len(queue)], rest |-> SubSeq(queue, 1, Len(queue) - 1)]

\* A queue that loses the item behind the one it hands out.
QueueGet_SkipOne(queue) ==
    [item |-> Head(queue), rest |-> IF Len(queue) > 1 THEN Tail(Tail(queue)) ELSE << >>]

\* asyncio.Queue.get on a non-empty queue: the oldest item leaves the queue.
QueueGet(queue) == [item |-> Head(queue), rest |-> Tail(queue)]

\* asyncio.Queue.put on an unbounded queue.
QueuePut(queue, item) == Append(queue, item)

InitQueue ==
    /\ stt = IdleStt
    /\ gem = IdleGem
    /\ path = IdlePath
    /\ roman = IdleRoman
    /\ mlm = IdleMlm
    /\ conversation_context = EmptyContext
    /\ ca_context = EmptyContext
    /\ clock = 0
    /\ turns = IdleTurns
    /\ norm = IdleNorm
    /\ tmpl = IdleTmpl
    /\ hist_adv = << >>
    /\ hist_ca = << >>
    /\ last = NoCall
    /\ nlu = IdleNlu
    /\ eng = IdleEng
    /\ brain = IdleBrain
    /\ mq = [op |-> "none", queue |-> << >>, queued |-> 0, unfinished |-> 0,
             worker |-> "waiting", current |-> 0, platform |-> "None",
             started |-> << >>, finished |-> << >>, results |-> << >>]

(* handle_query(query) for a query holding "send" or "message" that passes
   the safety check: a complete command is queued and the "Queued message"
   reply returned; otherwise nothing is queued and the query goes on to the
   rest of handle_query.                                                    *)
QueueMessage ==
    /\ mq.queued < MaxMessages
    /\ \E cmd \in ParsedCommands :
           mq' = IF cmd.complete
                   THEN [mq EXCEPT !.op = "queued", !.queued = @ + 1,
                                   !.unfinished = @ + 1,
                                   !.queue = QueuePut(@, [id |-> mq.queued + 1,
                                                          platform |-> cmd.platform])]
                 ELSE [mq EXCEPT !.op = "not_queued"]
    /\ UNCHANGED <<stt, gem, path, roman, mlm, conversation_context, ca_context, clock, hist_adv, hist_ca, last,
                   turns, norm, tmpl, nlu, eng, brain>>

\* message_worker: `await SHADOW.message_queue.get()` returns an item, the
\* platform gets its default, and send_message is called.
WorkerGet ==
    /\ mq.worker = "waiting"
    /\ mq.queue # << >>
    /\ \E g \in {QueueGet(mq.queue)} :
           mq' = [mq EXCEPT !.op = "get", !.queue = g.rest, !.worker = "sending",
                            !.current = g.item.id,
                            !.platform = IF g.item.platform = "None" THEN "whatsapp"
                                         ELSE g.item.platform,
                            !.started = Append(@, g.item.id)]
    /\ UNCHANGED <<stt, gem, path, roman, mlm, conversation_context, ca_context, clock, hist_adv, hist_ca, last,
                   turns, norm, tmpl, nlu, eng, brain>>

(* message_worker: `await SHADOW.messaging.send_message(...)` ends.  It
   returns a reply that reports success or failure, or it raises; nothing in
   message_worker catches an exception, so a raise ends the worker task.    *)
WorkerSend ==
    /\ mq.worker = "sending"
    /\ \E outcome \in {"sent", "failed", "raised"} :
           mq' = [mq EXCEPT !.op = "send",
                            !.worker = IF outcome = "raised" THEN "dead" ELSE "speaking",
                            !.finished = Append(@, mq.current),
                            !.results = Append(@, outcome)]
    /\ UNCHANGED <<stt, gem, path, roman, mlm, conversation_context, ca_context, clock, hist_adv, hist_ca, last,
                   turns, norm, tmpl, nlu, eng, brain>>

\* message_worker: the reply was written and spoken; task_done() and back to
\* the head of the loop.
WorkerDone ==
    /\ mq.worker = "speaking"
    /\ mq' = [mq EXCEPT !.op = "task_done", !.worker = "waiting", !.current = 0,
                        !.unfinished = @ - 1]
    /\ UNCHANGED <<stt, gem, path, roman, mlm, conversation_context, ca_context, clock, hist_adv, hist_ca, last,
                   turns, norm, tmpl, nlu, eng, brain>>

NextQueue ==
    \/ QueueMessage
    \/ WorkerGet
    \/ WorkerSend
    \/ WorkerDone

SpecQueue == InitQueue /\ [][NextQueue]_vars

\* The worker task is scheduled whenever it can run.
SpecQueueLive ==
    /\ SpecQueue
    /\ WF_vars(WorkerGet)
    /\ WF_vars(WorkerSend)
    /\ WF_vars(WorkerDone)

InQueue(id) == \E i \in DOMAIN mq.queue : mq.queue[i].id = id
Started(id) == \E i \in DOMAIN mq.started : mq.started[i] = id
Finished(id) == \E i \in DOMAIN mq.finished : mq.finished[i] = id

\* C12: send attempts start in the order of queueing (the k-th attempt is
\* for the k-th queued message), and an attempt starts only when every
\* earlier attempt has finished.
C12_SendsInQueueOrder ==
    /\ \A i \in DOMAIN mq.started : mq.started[i] = i
    /\ \A i \in DOMAIN mq.finished : mq.finished[i] = i
    /\ Len(mq.started) <= Len(mq.finished) + 1

\* Three messages were queued before the first attempt ended, and the third
\* attempt is under way after the first two have finished.
C12_Witness ==
    /\ mq.started = <<1, 2, 3>>
    /\ mq.finished = <<1, 2>>
    /\ mq.worker = "sending"

\* C13: a queued message whose send attempt has not finished is still in
\* the queue.
C13_InQueueUntilSendFinished ==
    \A id \in 1..mq.queued : Finished(id) \/ InQueue(id)

\* C13, as the code has it: a message leaves the queue only when its send
\* attempt starts, and it stays counted among the queue's unfinished tasks
\* (task_done not yet called) at least until its send attempt has finished.
C13_UnfinishedUntilSendFinished ==
    /\ \A id \in 1..mq.queued : InQueue(id) \/ Started(id)
    /\ mq.unfinished >= mq.queued - Len(mq.finished)
    /\ mq.unfinished = Len(mq.queue) + (IF mq.worker = "waiting" THEN 0 ELSE 1)

\* The second message is off the queue with its send under way and still
\* counted as unfinished, while the third waits in the queue.
C13_Witness ==
    /\ mq.worker = "sending"
    /\ mq.current = 2
    /\ ~InQueue(2)
    /\ InQueue(3)
    /\ mq.unfinished = 2

\* C14: every queued message eventually gets a send attempt, whatever
\* happened to the attempts before it.
C14_EveryQueuedMessageAttempted ==
    \A id \in 1..MaxMessages : (mq.queued >= id) ~> Started(id)

\* C14, the part the code keeps: no message is attempted twice or put back.
C14_AtMostOneAttempt ==
    /\ \A i, j \in DOMAIN mq.started : mq.started[i] = mq.started[j] => i = j
    /\ \A id \in 1..mq.queued : ~(Started(id) /\ InQueue(id))

-----------------------------------------------------------------------------
(* shadow_core/multilingual.py: MultilingualManager.detect_language and
   set_language.  In this part of the model a text is a sequence of Unicode
   code points.                                                             *)

supported_languages == {"en", "ur", "ps"}
default_language == "ur"

\* str.isspace() of one code point (the whitespace str.strip() removes)
IsSpaceCp(c) == c \in (9..13) \cup (28..32) \cup {133, 160, 8195, 12288}

\* len(text.strip()) == 0, also true of the empty text
IsBlankCp(text) == \A i \in DOMAIN text : IsSpaceCp(text[i])

\* len(re.findall(pattern, clean_text)) for a one-character class
Matches(class, text) == Cardinality({i \in DOMAIN text : text[i] \in class})

ArabicBlock == 1536..1791                   \* [؀-ۿ]
UrduCharacters == {1729, 1746, 1747}        \* the class of U+06C1, U+06D2, U+06D3
PashtoCharacters == {1690, 1683, 1707, 1724} \* the class of U+069A, U+0693, U+06AB, U+06BC
EnglishLetters == (65..90) \cup (97..122)   \* [a-zA-Z]

\* self.language_patterns, in the order of the dict
language_patterns ==
    [ur |-> <<ArabicBlock, UrduCharacters>>,
     ps |-> <<ArabicBlock, PashtoCharacters>>,
     en |-> <<EnglishLetters>>]

\* script_scores[lang]: the matches of the language's patterns, summed
ScriptScore(code, text) ==
    LET classes == language_patterns[code]
    IN  IF Len(classes) = 2
          THEN Matches(classes[1], text) + Matches(classes[2], text)
          ELSE Matches(classes[1], text)

script_scores(text) == [code \in {"ur", "ps", "en"} |-> ScriptScore(code, text)]

(* max(script_scores.items(), key=lambda x: x[1]): the first entry, in the
   dict's order ur, ps, en, that no other entry exceeds.                    *)
best_script_lang(scores) ==
    IF scores.ur >= scores.ps /\ scores.ur >= scores.en THEN "ur"
    ELSE IF scores.ps >= scores.en THEN "ps"
    ELSE "en"

(* What langdetect.detect(clean_text) does: it returns the code of one of
   its language profiles or raises LangDetectException.                     *)
LangDetectException == "LangDetectException"
DetectOutcomes == {"en", "ur", "ar", "fr", LangDetectException}

(* detect_language(text): [exc, val, detects], detects counting the calls of
   langdetect.detect.  text.strip() does not change any score.              *)
detect_language(current_language, text, outcome) ==
    IF IsBlankCp(text) THEN [exc |-> "", val |-> current_language, detects |-> 0]
    ELSE LET scores == script_scores(text)
             best == best_script_lang(scores)
         IN  IF scores[best] > 0 THEN [exc |-> "", val |-> best, detects |-> 0]
             ELSE IF outcome # LangDetectException /\ outcome \in supported_languages
                    THEN [exc |-> "", val |-> outcome, detects |-> 1]
             ELSE [exc |-> "", val |-> current_language, detects |-> 1]

\* A set_language that takes every code.
set_language_Unchecked(current_language, language) == language

\* set_language(language): the current language afterwards
set_language(current_language, language) ==
    IF language \in supported_languages THEN language ELSE current_language

-----------------------------------------------------------------------------
(* Specification SpecLang: set_language calls with supported and unsupported
   codes, and detect_language on every short text over a small alphabet     *)

MaxChars == 3

\* space, no-break space, '1', 'a', e acute, alef, Urdu heh goal, Pashto sheen
LangAlphabet == {32, 160, 49, 97, 233, 1575, 1729, 1690}

LangTexts == SeqsUpTo(LangAlphabet, MaxChars)

LanguageArguments == supported_languages \cup {"fr", ""}

InitLang ==
    /\ stt = IdleStt
    /\ gem = IdleGem
    /\ path = IdlePath
    /\ roman = IdleRoman
    /\ conversation_context = EmptyContext
    /\ ca_context = EmptyContext
    /\ clock = 0
    /\ mq = IdleMq
    /\ turns = IdleTurns
    /\ norm = IdleNorm
    /\ tmpl = IdleTmpl
    /\ hist_adv = << >>
    /\ hist_ca = << >>
    /\ last = NoCall
    /\ nlu = IdleNlu
    /\ eng = IdleEng
    /\ brain = IdleBrain
    /\ mlm \in {[op |-> "init", current_language |-> default_language, text |-> t,
                 exc |-> "", val |-> "", detects |-> 0] : t \in LangTexts}

SetLanguage ==
    /\ mlm.op # "none"
    /\ \E language \in LanguageArguments :
           mlm' = [mlm EXCEPT !.op = "set_language",
                              !.current_language = set_language(@, language),
                              !.exc = "", !.val = "", !.detects = 0]
    /\ UNCHANGED <<stt, gem, path, roman, mq, turns, norm, tmpl, conversation_context, ca_context, clock,
                   hist_adv, hist_ca, last, nlu, eng, brain>>

DetectLanguage ==
    /\ mlm.op # "none"
    /\ \E outcome \in DetectOutcomes :
       \E r \in {detect_language(mlm.current_language, mlm.text, outcome)} :
           mlm' = [mlm EXCEPT !.op = "detect_language", !.exc = r.exc, !.val = r.val,
                              !.detects = r.detects]
    /\ UNCHANGED <<stt, gem, path, roman, mq, turns, norm, tmpl, conversation_context, ca_context, clock,
                   hist_adv, hist_ca, last, nlu, eng, brain>>

NextLang ==
    \/ SetLanguage
    \/ DetectLanguage

SpecLang == InitLang /\ [][NextLang]_vars

\* C21: after any sequence of set_language calls, detect_language returns
\* without raising one of en, ur, ps, and for an empty or whitespace-only
\* text it returns the current language.
C21_DetectReturnsSupported ==
    mlm.op = "detect_language" =>
        /\ mlm.exc = ""
        /\ mlm.val \in {"en", "ur", "ps"}
        /\ IsBlankCp(mlm.text) => mlm.val = mlm.current_language

\* A text without letters of either script was given to langdetect, which
\* answered with a language the manager does not support, after set_language
\* had made English the current language.
C21_Witness ==
    /\ mlm.op = "detect_language"
    /\ mlm.text = <<49, 233>>
    /\ mlm.detects = 1
    /\ mlm.current_language = "en"
    /\ mlm.val = "en"

\* C27: for a text that holds at least one character of the Arabic block,
\* detect_language returns ur or ps, never en, and does not call langdetect.
C27_NativeScriptNeverEnglish ==
    (mlm.op = "detect_language" /\ Matches(ArabicBlock, mlm.text) > 0) =>
        /\ mlm.val \in {"ur", "ps"}
        /\ mlm.detects = 0

\* C27, what the code keeps: such a text is decided by the script scores
\* without langdetect, and is ur or ps unless it has more English letters
\* than the language's patterns match.
C27_NativeScriptDecidedByScores ==
    (mlm.op = "detect_language" /\ Matches(ArabicBlock, mlm.text) > 0) =>
        /\ mlm.detects = 0
        /\ mlm.val = best_script_lang(script_scores(mlm.text))
        /\ (mlm.val = "en") =>
              Matches(EnglishLetters, mlm.text) > Matches(ArabicBlock, mlm.text)

-----------------------------------------------------------------------------
(* shadow_core/stt_multilingual.py: MultilingualSTT.is_roman_input *)

\* self.roman_urdu_patterns and self.roman_pashto_patterns
roman_urdu_patterns ==
    SubSeq(roman_urdu_indicators, 1, 27) \o << Chars("salam"), Chars("alaikum") >>

roman_pashto_patterns == SubSeq(roman_pashto_indicators, 1, 23)

\* _contains_hindi_script: re.search(r'[ऀ-ॿ]', text)
contains_hindi_script(text) == \E i \in DOMAIN text : text[i] \in DevanagariChars

is_roman_input(text) ==
    IF text = NoText THEN FALSE
    ELSE LET urdu_score == IndicatorScore(roman_urdu_patterns, lower(text))
             pashto_score == IndicatorScore(roman_pashto_patterns, lower(text))
             \* _contains_urdu_script and _contains_pashto_script test the same block
             has_native_script == HasArabicScript(text) \/ contains_hindi_script(text)
         IN  (urdu_score >= 1 \/ pashto_score >= 1) /\ ~has_native_script

-----------------------------------------------------------------------------
(* Specification SpecRoman: the three Roman-script detectors on every text
   of a vocabulary of Roman, English and native-script words                *)

RomanVocabulary ==
    { Chars("theek"), Chars("Salam "), Chars("kaw"), Chars("de "), Chars("hi "),
      Chars("the show "), <<"U+0627">>, <<"U+0915">> }

RomanTexts == {Concat(ws) : ws \in SeqsUpTo(RomanVocabulary, MaxWords)}

InitRoman ==
    /\ stt = IdleStt
    /\ gem = IdleGem
    /\ path = IdlePath
    /\ conversation_context = EmptyContext
    /\ ca_context = EmptyContext
    /\ clock = 0
    /\ mq = IdleMq
    /\ turns = IdleTurns
    /\ norm = IdleNorm
    /\ tmpl = IdleTmpl
    /\ hist_adv = << >>
    /\ hist_ca = << >>
    /\ last = NoCall
    /\ nlu = IdleNlu
    /\ eng = IdleEng
    /\ brain = IdleBrain
    /\ mlm = IdleMlm
    /\ roman \in {[op |-> "init", text |-> t, detector |-> "", val |-> FALSE] :
                    t \in RomanTexts}

\* One of the detectors is called with the text.
ClassifyRoman ==
    /\ roman.op = "init"
    /\ \E detector \in {"_is_roman_urdu", "_is_roman_pashto", "is_roman_input"} :
           roman' = [roman EXCEPT
                       !.op = "classify", !.detector = detector,
                       !.val = CASE detector = "_is_roman_urdu" -> is_roman_urdu(roman.text)
                                 [] detector = "_is_roman_pashto" -> is_roman_pashto(roman.text)
                                 [] OTHER -> is_roman_input(roman.text)]
    /\ UNCHANGED <<stt, gem, path, mlm, mq, turns, norm, tmpl, conversation_context, ca_context, clock,
                   hist_adv, hist_ca, last, nlu, eng, brain>>

NextRoman == ClassifyRoman

SpecRoman == InitRoman /\ [][NextRoman]_vars

\* The number of distinct words of a lexicon that occur in the text.
DistinctHits(lexicon, text) ==
    Cardinality({lexicon[i] : i \in {j \in DOMAIN lexicon : IsSub(lexicon[j], lower(text))}})

\* C23: a text is classified as Roman Urdu or Roman Pashto only if at least
\* 2 distinct indicator words of that language's lexicon occur in it and it
\* holds no native-script character.
C23_RomanNeedsTwoIndicators ==
    (roman.op = "classify" /\ roman.val) =>
        /\ ~HasArabicScript(roman.text)
        /\ CASE roman.detector = "_is_roman_urdu" ->
                    DistinctHits(roman_urdu_indicators, roman.text) >= 2
             [] roman.detector = "_is_roman_pashto" ->
                    DistinctHits(roman_pashto_indicators, roman.text) >= 2
             [] OTHER ->
                    \/ DistinctHits(roman_urdu_patterns, roman.text) >= 2
                    \/ DistinctHits(roman_pashto_patterns, roman.text) >= 2

\* C23, the part the decision engine's detectors keep: they say Roman only
\* of a text without Arabic-block characters in which at least two distinct
\* entries of the lexicon occur as substrings.
C23_EngineNeedsTwoHits ==
    (roman.op = "classify" /\ roman.val /\ roman.detector # "is_roman_input") =>
        /\ ~HasArabicScript(roman.text)
        /\ roman.detector = "_is_roman_urdu" =>
               DistinctHits(roman_urdu_indicators, roman.text) >= 2
        /\ roman.detector = "_is_roman_pashto" =>
               DistinctHits(roman_pashto_indicators, roman.text) >= 2

-----------------------------------------------------------------------------
(* main.py: the paths by which a turn reaches Shadow.safe_handle_query or the
   multilingual brain, and the timeouts on them                             *)

(* CLI text input, the CLI voice callback, GUI text input, the GUI voice
   callback and run_multilingual_voice_loop.                                *)
Entries == {"cli_text", "cli_voice", "gui_text", "gui_voice", "voice_loop"}

\* The coroutine the entry starts
Handler(entry) ==
    CASE entry \in {"cli_text", "cli_voice", "gui_text"} -> "handle_query"
      [] entry = "gui_voice" -> "schedule_handle_query"
      [] OTHER -> "process_multilingual_query"

(* The timeout of asyncio.wait_for around SHADOW.safe_handle_query, in
   seconds; 0 where the path has no wait_for.                               *)
wait_for_timeout(entry) == IF Handler(entry) = "handle_query" THEN 25 ELSE 0

\* The timeout of Future.result(timeout=...) in the caller's thread, 0 for none
result_timeout(entry) ==
    CASE entry = "cli_text" -> 25
      [] entry = "cli_voice" -> 20
      [] OTHER -> 0

-----------------------------------------------------------------------------
(* Specification SpecPaths: turns on every entry path; the provider may
   answer, raise, or never answer, while time goes by in steps of five
   seconds                                                                  *)

MaxQueries == 2      \* turns, one after the other
MaxElapsed == 30     \* seconds a turn is followed for

NewTurn(entry, query) ==
    [op |-> "turn", entry |-> entry, pc |-> "awaiting", attempt |-> 0, elapsed |-> 0,
     caller |-> IF result_timeout(entry) > 0 THEN "waiting" ELSE "gone",
     outcome |-> "", query |-> query]

InitPaths ==
    /\ stt = IdleStt
    /\ gem = IdleGem
    /\ conversation_context = EmptyContext
    /\ ca_context = EmptyContext
    /\ clock = 0
    /\ mq = IdleMq
    /\ turns = IdleTurns
    /\ norm = IdleNorm
    /\ tmpl = IdleTmpl
    /\ hist_adv = << >>
    /\ hist_ca = << >>
    /\ last = NoCall
    /\ nlu = IdleNlu
    /\ eng = IdleEng
    /\ brain = IdleBrain
    /\ mlm = IdleMlm
    /\ roman = IdleRoman
    /\ path = [op |-> "turn", entry |-> "none", pc |-> "idle", attempt |-> 0,
               elapsed |-> 0, caller |-> "gone", outcome |-> "", query |-> 0]

PathUnchanged ==
    UNCHANGED <<stt, gem, roman, mlm, mq, turns, norm, tmpl, conversation_context, ca_context,
                clock, hist_adv, hist_ca, last, nlu, eng, brain>>

(* A query arrives on one of the paths.  Through handle_query and
   schedule_handle_query the first attempt of safe_handle_query is then
   suspended at the provider call of brain.ask; process_multilingual_query
   ends at once, because ask_multilingual raises TypeError before it reaches
   the provider, and the loop's except clause takes the error.              *)
PathStart ==
    /\ path.pc \in {"idle", "done"}
    /\ path.query < MaxQueries
    /\ \E entry \in Entries :
           path' = IF Handler(entry) = "process_multilingual_query"
                     THEN [NewTurn(entry, path.query + 1) EXCEPT
                              !.pc = "done", !.outcome = "error"]
                     ELSE NewTurn(entry, path.query + 1)
    /\ PathUnchanged

\* Five seconds go by while the turn is in flight; a timeout that is due
\* fires before more time passes.
PathTick ==
    /\ path.pc \in {"awaiting", "sleeping"}
    /\ path.elapsed < MaxElapsed
    /\ wait_for_timeout(path.entry) > 0 => path.elapsed < wait_for_timeout(path.entry)
    /\ path.caller = "waiting" => path.elapsed < result_timeout(path.entry)
    /\ path' = [path EXCEPT !.elapsed = @ + 5]
    /\ PathUnchanged

(* The provider call of the attempt in flight ends: the attempt returns a
   reply, or it raises; a raising attempt is followed by the sleep before
   the next one, the last one by the error.                                 *)
PathAnswer ==
    /\ path.pc = "awaiting"
    /\ \E raised \in BOOLEAN :
           path' = IF ~raised
                     THEN [path EXCEPT !.pc = "done", !.outcome = "reply",
                              !.caller = IF @ = "waiting" THEN "answered" ELSE @]
                   ELSE IF path.attempt + 1 < retries
                     THEN [path EXCEPT !.pc = "sleeping", !.attempt = @ + 1]
                   ELSE [path EXCEPT !.pc = "done", !.outcome = "error",
                            !.caller = IF @ = "waiting" THEN "answered" ELSE @]
    /\ PathUnchanged

\* asyncio.sleep(1) of safe_handle_query ends and the next attempt starts.
PathRetry ==
    /\ path.pc = "sleeping"
    /\ path' = [path EXCEPT !.pc = "awaiting"]
    /\ PathUnchanged

\* asyncio.wait_for gives up and cancels safe_handle_query.
PathTimeout ==
    /\ path.pc \in {"awaiting", "sleeping"}
    /\ wait_for_timeout(path.entry) > 0
    /\ path.elapsed >= wait_for_timeout(path.entry)
    /\ path' = [path EXCEPT !.pc = "done", !.outcome = "timeout",
                   !.caller = IF @ = "waiting" THEN "answered" ELSE @]
    /\ PathUnchanged

\* Future.result(timeout=...) gives up in the caller's thread; the coroutine
\* on BG_LOOP goes on.
PathCallerGivesUp ==
    /\ path.pc \in {"awaiting", "sleeping"}
    /\ path.caller = "waiting"
    /\ path.elapsed >= result_timeout(path.entry)
    /\ path' = [path EXCEPT !.caller = "gave_up"]
    /\ PathUnchanged

NextPaths ==
    \/ PathStart
    \/ PathTick
    \/ PathAnswer
    \/ PathRetry
    \/ PathTimeout
    \/ PathCallerGivesUp

SpecPaths == InitPaths /\ [][NextPaths]_vars

(* Time goes by, sleeps end and timeouts fire; nothing makes the provider
   answer or a new query arrive.                                            *)
SpecPathsLive ==
    /\ SpecPaths
    /\ WF_vars(PathTick)
    /\ WF_vars(PathRetry)
    /\ WF_vars(PathTimeout)
    /\ WF_vars(PathCallerGivesUp)

InFlight == path.pc \in {"awaiting", "sleeping"}

\* C26: on every path a turn that has reached the provider call eventually
\* completes or times out, even if the provider never answers.
C26_EveryTurnEnds == InFlight ~> (path.pc = "done")

\* C26, the part the code keeps: the turns that go through main.py's
\* handle_query end within its wait_for timeout.
C26_HandleQueryTurnsEnd ==
    (InFlight /\ Handler(path.entry) = "handle_query") ~> (path.pc = "done")

\* No turn through handle_query is in flight after its 25 seconds.
C26_HandleQueryBounded ==
    (InFlight /\ Handler(path.entry) = "handle_query") =>
        path.elapsed <= wait_for_timeout(path.entry)

-----------------------------------------------------------------------------
(* shadow_core/free_gemini.py: GeminiFlashBrain.ask.  _check_rate_limits and
   the request tracking are those of ShadowBrain, with the same limits.     *)

\* One of the replies of _get_fallback_response
FallbackResponse == "I'm optimizing my connection. Please try again in a moment!"

\* _get_next_api_key: the index of the key handed out and the index afterwards
get_next_api_key(b) ==
    [key |-> b.current_key_index,
     b   |-> [b EXCEPT !.current_key_index = (@ + 1) % b.keys]]

(* The opening of ask (lines 97-111): the rate-limit check, the request
   tracking and the choice of the key.  [ok, b, key]                        *)
ask_opening(b, current_time) ==
    LET c == check_rate_limits(b, current_time)
        two_minutes_ago == current_time - 120
        tracked == [c.b EXCEPT
                      !.request_timestamps = After(Append(@, current_time), two_minutes_ago),
                      !.daily_requests = @ + 1,
                      !.provider_calls = @ + 1]
        next == get_next_api_key(tracked)
    IN  IF ~c.ok THEN [ok |-> FALSE, b |-> c.b, key |-> 0]
        ELSE [ok |-> TRUE, b |-> next.b, key |-> next.key]

-----------------------------------------------------------------------------
(* Specification SpecGemini: one ask on a brain with one or more API keys,
   whose provider calls answer, fail, or report that the model is not found *)

MaxKeys == 3

\* Brains at the start of the ask: fresh, or with 50 requests just made.
GeminiStates ==
    { [keys |-> n, current_key_index |-> 0, request_timestamps |-> Burst(made, 0),
       daily_requests |-> made, last_reset_time |-> 0, provider_calls |-> 0] :
          n \in 1..MaxKeys, made \in {0, requests_per_minute - 5} }

InitGemini ==
    /\ stt = IdleStt
    /\ conversation_context = EmptyContext
    /\ ca_context = EmptyContext
    /\ clock = 0
    /\ mq = IdleMq
    /\ turns = IdleTurns
    /\ norm = IdleNorm
    /\ tmpl = IdleTmpl
    /\ hist_adv = << >>
    /\ hist_ca = << >>
    /\ last = NoCall
    /\ nlu = IdleNlu
    /\ eng = IdleEng
    /\ brain = IdleBrain
    /\ mlm = IdleMlm
    /\ roman = IdleRoman
    /\ path = IdlePath
    /\ gem \in {[op |-> "ask", pc |-> "idle", b |-> b, now |-> 0, key |-> 0,
                 tried |-> [k \in 0..(b.keys - 1) |-> 0], reply |-> "",
                 fallback_calls |-> 0, seconds |-> s] :
                    b \in GeminiStates, s \in {0, 1}}

GeminiUnchanged ==
    UNCHANGED <<stt, path, roman, mlm, mq, turns, norm, tmpl, conversation_context,
                ca_context, clock, hist_adv, hist_ca, last, nlu, eng, brain>>

(* ask is entered, by the caller or by `return await self.ask(messages)` of
   the except clause: it is turned away by the rate limit, or it records the
   request, takes the next key and calls the provider.                      *)
GeminiAsk ==
    /\ gem.pc \in {"idle", "again"}
    /\ \E o \in {ask_opening(gem.b, gem.now)} :
           gem' = IF ~o.ok
                    THEN [gem EXCEPT !.pc = "done", !.b = o.b, !.reply = RateLimited]
                    ELSE [gem EXCEPT !.pc = "calling", !.b = o.b, !.key = o.key,
                                     !.tried[o.key] = @ + 1]
    /\ GeminiUnchanged

\* model.generate_content answers.
GeminiAnswer ==
    /\ gem.pc = "calling"
    /\ gem' = [gem EXCEPT !.pc = "done", !.reply = ResponseText]
    /\ GeminiUnchanged

(* model.generate_content raises "... not found ...": _try_fallback_model
   goes through up to three other models with the same key; `answered` is
   the one that answers, 0 if none does.                                    *)
GeminiModelNotFound ==
    /\ gem.pc = "calling"
    /\ \E answered \in 0..3 :
           gem' = [gem EXCEPT
                     !.pc = "done",
                     !.fallback_calls = IF answered = 0 THEN 3 ELSE answered,
                     !.reply = IF answered = 0 THEN FallbackResponse ELSE ResponseText]
    /\ GeminiUnchanged

(* model.generate_content raises anything else, gem.seconds after the call:
   with more than one key ask calls itself, with a single key it gives the
   fallback response.                                                       *)
GeminiError ==
    /\ gem.pc = "calling"
    /\ gem' = IF gem.b.keys > 1
                THEN [gem EXCEPT !.pc = "again", !.now = @ + gem.seconds]
                ELSE [gem EXCEPT !.pc = "done", !.now = @ + gem.seconds,
                                 !.reply = FallbackResponse]
    /\ GeminiUnchanged

NextGemini ==
    \/ GeminiAsk
    \/ GeminiAnswer
    \/ GeminiModelNotFound
    \/ GeminiError

SpecGemini == InitGemini /\ [][NextGemini]_vars

\* The provider calls ask has made with its primary model.
Attempts == gem.b.provider_calls

\* C29: one ask makes at most as many provider attempts as there are API
\* keys, trying no key twice, and ends with a reply.
C29_AttemptsBoundedByKeys ==
    gem.op = "ask" =>
        /\ Attempts <= gem.b.keys
        /\ \A k \in DOMAIN gem.tried : gem.tried[k] <= 1
        /\ gem.pc = "done" => gem.reply # ""

(* C29, what the code keeps: a finished ask has a reply, an ask with a single
   key makes one attempt, and with several keys the attempts go round the
   keys for as long as the request budget lasts.                            *)
C29_AttemptsBoundedByBudget ==
    gem.op = "ask" =>
        /\ gem.pc = "done" => gem.reply # ""
        /\ gem.b.keys = 1 => Attempts <= 1
        /\ gem.b.daily_requests <= requests_per_day
        /\ \A k, l \in DOMAIN gem.tried : gem.tried[k] - gem.tried[l] \in {-1, 0, 1}
        /\ (gem.pc = "done" /\ gem.reply = RateLimited) =>
              ~check_rate_limits(gem.b, gem.now).ok

-----------------------------------------------------------------------------
(* shadow_core/stt.py, shadow_core/stt_openai.py: listen_continuous, its
   worker thread, the stop function it returns, stop() and is_listening().
   The two classes have the same code for these.                            *)

\* text.lower().strip() in ["stop listening", "exit", "stop", "quit"]
StopCommands == {Chars("stop listening"), Chars("exit"), Chars("stop"), Chars("quit")}
is_stop_command(text) == strip(lower(text)) \in StopCommands

\* while not stop_flag.is_set() and self._is_listening
should_continue(s, w) == ~s.workers[w].stop_flag /\ s.is_listening

\* What recognizer.listen and the recognition give the worker: None for
\* sr.WaitTimeoutError or an error, else the recognised text.
None == <<"None">>
Heard == {None, Chars(""), Chars("hello"), Chars("Stop "), Chars("stop listening"),
          Chars("exit"), Chars("QUIT")}

-----------------------------------------------------------------------------
(* Specification SpecListen: the main thread starts listening sessions and
   stops them, by the returned stop function or by stop(); each session's
   worker thread runs beside it.                                            *)

MaxSessions == 2

Sessions == 1..MaxSessions

\* A worker thread: not yet created, or at the loop test, or blocked in
\* listen and recognition, or exited.
NoWorker == [pc |-> "none", stop_flag |-> FALSE, stop_called |-> FALSE, stop_returned |-> FALSE,
             spoken_stop |-> FALSE, called_back |-> FALSE]

InitListen ==
    /\ conversation_context = EmptyContext
    /\ ca_context = EmptyContext
    /\ clock = 0
    /\ mq = IdleMq
    /\ turns = IdleTurns
    /\ norm = IdleNorm
    /\ tmpl = IdleTmpl
    /\ hist_adv = << >>
    /\ hist_ca = << >>
    /\ last = NoCall
    /\ nlu = IdleNlu
    /\ eng = IdleEng
    /\ brain = IdleBrain
    /\ mlm = IdleMlm
    /\ roman = IdleRoman
    /\ path = IdlePath
    /\ gem = IdleGem
    /\ stt \in {[op |-> "listen", microphone |-> mic, is_listening |-> FALSE,
                 stop_listening |-> 0, started |-> 0, main |-> "idle", joining |-> 0,
                 late_callback |-> FALSE,
                 workers |-> [w \in Sessions |-> NoWorker]] : mic \in BOOLEAN}

ListenUnchanged ==
    UNCHANGED <<gem, path, roman, mlm, mq, turns, norm, tmpl, conversation_context,
                ca_context, clock, hist_adv, hist_ca, last, nlu, eng, brain>>

Running(s, w) == s.workers[w].pc \in {"loop", "listening"}

(* listen_continuous: without a microphone it returns `lambda: None` and
   changes nothing; else it sets _is_listening, starts the worker thread and
   keeps the stop function in _stop_listening.                              *)
ListenContinuous ==
    /\ stt.main = "idle"
    /\ stt.started < MaxSessions
    /\ stt' = IF ~stt.microphone
                THEN [stt EXCEPT !.started = @ + 1]
                ELSE [stt EXCEPT !.started = @ + 1,
                                 !.is_listening = TRUE,
                                 !.stop_listening = stt.started + 1,
                                 !.workers[stt.started + 1].pc = "loop"]
    /\ ListenUnchanged

\* The worker tests its loop condition.
ListenWorkerTest ==
    /\ \E w \in Sessions :
         /\ stt.workers[w].pc = "loop"
         /\ stt' = [stt EXCEPT !.workers[w].pc =
                        IF should_continue(stt, w) THEN "listening" ELSE "exited"]
    /\ ListenUnchanged

(* The worker comes back from listen and recognition: nothing heard, or a
   stop command (stop_flag.set(); break), or a text for the callback.       *)
ListenWorkerHears ==
    /\ \E w \in Sessions, text \in Heard :
         /\ stt.workers[w].pc = "listening"
         /\ stt' = IF text = None \/ text = Chars("")
                     THEN [stt EXCEPT !.workers[w].pc = "loop"]
                   ELSE IF is_stop_command(text)
                     THEN [stt EXCEPT !.workers[w].pc = "exited",
                                      !.workers[w].stop_flag = TRUE,
                                      !.workers[w].spoken_stop = TRUE]
                     ELSE [stt EXCEPT !.workers[w].pc = "loop",
                                      !.workers[w].called_back = TRUE,
                                      !.late_callback = @ \/ stt.workers[w].stop_returned]
    /\ ListenUnchanged

(* stop_listening of session w, called by the holder of the returned function
   or by stop() through _stop_listening: the flags are set, then the thread
   is joined for at most two seconds.                                       *)
StopListening ==
    /\ stt.main = "idle"
    /\ \E w \in Sessions :
         /\ stt.workers[w].pc # "none"
         /\ ~stt.workers[w].stop_returned
         /\ stt' = [stt EXCEPT !.workers[w].stop_flag = TRUE,
                               !.workers[w].stop_called = TRUE,
                               !.is_listening = FALSE,
                               !.main = "joining",
                               !.joining = w]
    /\ ListenUnchanged

(* worker_thread.join(timeout=2.0) returns: the worker has exited, or it is
   still blocked in listen and recognition after two seconds.  Then
   _stop_listening is cleared (and stop() clears _is_listening again).      *)
JoinReturns ==
    /\ stt.main = "joining"
    /\ stt.workers[stt.joining].pc \in {"exited", "listening"}
    /\ stt' = [stt EXCEPT !.workers[stt.joining].stop_returned = TRUE,
                          !.stop_listening = 0,
                          !.is_listening = FALSE,
                          !.main = "idle",
                          !.joining = 0]
    /\ ListenUnchanged

NextListen ==
    \/ ListenContinuous
    \/ ListenWorkerTest
    \/ ListenWorkerHears
    \/ StopListening
    \/ JoinReturns

SpecListen == InitListen /\ [][NextListen]_vars

\* is_listening()
is_listening == stt.is_listening

\* C30: between the main thread's calls, is_listening() is true exactly
\* while a worker thread is running, and no callback is started after a stop
\* has returned.
C30_ListeningIffWorkerRuns ==
    (stt.op = "listen" /\ stt.main = "idle") =>
        /\ is_listening <=> \E w \in Sessions : Running(stt, w)
        /\ ~stt.late_callback

(* C30, what the code keeps: is_listening() is true only when a session has
   been started and no stop has been called since, and a worker that has
   exited has heard a stop command or seen a stop.                          *)
C30_ListeningSinceLastStart ==
    stt.op = "listen" =>
        /\ is_listening =>
              /\ stt.stop_listening = stt.started
              /\ stt.workers[stt.started].pc # "none"
              /\ ~stt.workers[stt.started].stop_returned
        /\ \A w \in Sessions :
              stt.workers[w].pc = "exited" =>
                 \/ stt.workers[w].stop_flag
                 \/ \E v \in Sessions : stt.workers[v].stop_called

====
